---- MODULE Spec2Model ----
(***************************************************************************)
(* OCLI terminal outliner (vladzima/ocli): the bullet tree and its         *)
(* mutation engine, the JSON persistence codecs (local and per-user SSH),  *)
(* the SSH session wrapper with its write-through saves, and the SSH key   *)
(* authentication store.                                                   *)
(*                                                                         *)
(* Pointers to Bullet are indexes  into a heap of Bullet records; NULL is   *)
(* the nil pointer.  Go slices are sequences; Go's 0-based indexes are     *)
(* kept for selectedIndex, scrollOffset and insertion positions.           *)
(***************************************************************************)
EXTENDS Integers, Sequences, FiniteSets, TLC

\* ------------------------------------------------------------------ bounds
\* number of messages one session processes
MaxOps == 4
\* number of key messages of a session that only restructures its document
MaxTreeOps == 6
\* number of characters the text input accepts (stands for CharLimit)
MaxText == 1
\* number of nodes of a durable record the session starts from
MaxInitNodes == 3
\* number of nodes of a durable record handed to a codec
MaxCodecNodes == 2
\* number of changes made to a document between the saves and loads of a codec
MaxCodecOps == 1
\* number of calls made to the auth store one after the other
MaxAuthOps == 2
\* number of connections that authenticate at the same time
MaxConns == 2
\* connections the server serves in one run
MaxSessions == 2
\* calls and messages the server handles in one run
MaxServerOps == 4

\* ------------------------------------------------------- program constants
NULL == 0

ColorDefault == 0
ColorBlue == 1
ColorGreen == 2
ColorYellow == 3
ColorRed == 4
NumColors == 5

EditModeNone == "EditModeNone"
EditModeNew == "EditModeNew"
EditModeEdit == "EditModeEdit"

AppModeNormal == "AppModeNormal"
AppModeSettings == "AppModeSettings"
AppModeHelp == "AppModeHelp"

\* rows the view reserves for title, breadcrumbs and help
ChromeRows == 6
\* rows the view reserves for the new-bullet input
InputRows == 2

\* ------------------------------------------------------------ sequences
Min(S) == CHOOSE x \in S : \A y \in S : x <= y
Max(S) == CHOOSE x \in S : \A y \in S : x >= y

\* s without its i-th element (1-based): append(s[:i], s[i+1:]...)
RemoveAt(s, i) == SubSeq(s, 1, i - 1) \o SubSeq(s, i + 1, Len(s))

\* s with x inserted at Go index i0: append(s[:i0], append([]T{x}, s[i0:]...)...)
InsertAt(s, i0, x) == SubSeq(s, 1, i0) \o <<x>> \o SubSeq(s, i0 + 1, Len(s))

RECURSIVE Flatten(_)
Flatten(ss) == IF ss = <<>> THEN <<>> ELSE Head(ss) \o Flatten(Tail(ss))

\* ---------------------------------------------------------------- Bullet
\* NewBullet: a node with a fresh uuid and the given content
NewBullet(id, content) ==
    [ID |-> id, Content |-> content, Children |-> <<>>, Parent |-> NULL,
     Collapsed |-> FALSE, IsEditing |-> FALSE, Color |-> ColorDefault,
     IsTask |-> FALSE, Completed |-> FALSE]

\* position (1-based) of the first element of ptrs whose ID equals id, 0 if none:
\* the loops "for i, b := range list { if b.ID == x.ID { ...; break } }"
IndexOfID(h, ptrs, id) ==
    LET S == {i \in 1..Len(ptrs) : h[ptrs[i]].ID = id}
    IN  IF S = {} THEN 0 ELSE Min(S)

AddChild(h, b, child) ==
    [h EXCEPT ![child].Parent = b, ![b].Children = Append(@, child)]

\* a RemoveChild that clears the child's Parent but leaves it in the list
RemoveChildKeepsEntry(h, b, child) ==
    LET i == IndexOfID(h, h[b].Children, h[child].ID)
    IN  IF i = 0 THEN h ELSE [h EXCEPT ![child].Parent = NULL]

RemoveChild(h, b, child) ==
    LET i == IndexOfID(h, h[b].Children, h[child].ID)
    IN  IF i = 0 THEN h
        ELSE [h EXCEPT ![b].Children = RemoveAt(@, i), ![child].Parent = NULL]

InsertChildAt(h, b, index, child) ==
    IF index < 0 \/ index > Len(h[b].Children) THEN h
    ELSE [h EXCEPT ![child].Parent = b, ![b].Children = InsertAt(@, index, child)]

RECURSIVE GetDepth(_, _)
GetDepth(h, b) ==
    IF h[b].Parent = NULL THEN 0 ELSE 1 + GetDepth(h, h[b].Parent)

RECURSIVE DepthFromLoop(_, _, _, _)
DepthFromLoop(h, current, ancestor, depth) ==
    IF h[current].Parent = NULL THEN depth
    ELSE IF h[current].Parent = ancestor THEN depth + 1
    ELSE DepthFromLoop(h, h[current].Parent, ancestor, depth + 1)

GetDepthFrom(h, b, ancestor) ==
    IF b = ancestor THEN 0 ELSE DepthFromLoop(h, b, ancestor, 0)

\* GetVisibleDescendants that lists the children only
GetVisibleChildren(h, b) ==
    IF h[b].Collapsed THEN <<>> ELSE h[b].Children

RECURSIVE GetVisibleDescendants(_, _)
GetVisibleDescendants(h, b) ==
    IF h[b].Collapsed THEN <<>>
    ELSE Flatten([i \in 1..Len(h[b].Children) |->
                    <<h[b].Children[i]>> \o GetVisibleDescendants(h, h[b].Children[i])])

\* Toggle that flips the flag of a node without children too
ToggleAlways(h, b) ==
    [h EXCEPT ![b].Collapsed = ~@]

Toggle(h, b) ==
    IF Len(h[b].Children) > 0 THEN [h EXCEPT ![b].Collapsed = ~@] ELSE h

CycleColor(h, b) == [h EXCEPT ![b].Color = (@ + 1) % NumColors]

\* ToggleTask that leaves the completed flag alone
ToggleTaskKeepsCompleted(h, b) ==
    [h EXCEPT ![b].IsTask = ~@]

ToggleTask(h, b) ==
    LET h1 == [h EXCEPT ![b].IsTask = ~@]
    IN  IF ~h1[b].IsTask THEN [h1 EXCEPT ![b].Completed = FALSE] ELSE h1

ToggleComplete(h, b) ==
    IF h[b].IsTask THEN [h EXCEPT ![b].Completed = ~@] ELSE h

\* ----------------------------------------------------------------- Model
\* A Model value m is the Go struct Model together with the heap its pointers
\* point into: m.heap[p] is the Bullet at pointer p.  m.nextId is the next value
\* uuid.New() returns; m.panicked records a run-time panic inside Update.

ensureSelectedVisible(m) ==
    IF m.height = 0 THEN m
    ELSE LET availableHeight ==
                 m.height - ChromeRows - (IF m.editMode = EditModeNew THEN InputRows ELSE 0)
             s1 == IF m.selectedIndex < m.scrollOffset THEN m.selectedIndex
                   ELSE IF m.selectedIndex >= m.scrollOffset + availableHeight
                        THEN m.selectedIndex - availableHeight + 1
                        ELSE m.scrollOffset
             s2 == IF s1 < 0 THEN 0 ELSE s1
             m0 == Len(m.allBullets) - availableHeight
             maxScroll == IF m0 < 0 THEN 0 ELSE m0
         IN  [m EXCEPT !.scrollOffset = IF s2 > maxScroll THEN maxScroll ELSE s2]

\* rebuildVisibleList that lists the whole forest in a zoomed view too
rebuildVisibleListUnzoomed(m) ==
    [m EXCEPT !.allBullets =
        Flatten([i \in 1..Len(m.rootBullets) |->
                 <<m.rootBullets[i]>> \o GetVisibleDescendants(m.heap, m.rootBullets[i])])]

\* GetVisibleDescendants never returns for the nodes of list: below them a
\* node that is not collapsed is its own descendant, and the recursion ends
\* with the fatal error "stack overflow"
RECURSIVE RecursesWithoutEnd(_, _, _)
RecursesWithoutEnd(h, list, fuel) ==
    /\ list # <<>>
    /\ \/ fuel = 0
       \/ \E i \in 1..Len(list) :
             ~h[list[i]].Collapsed /\ RecursesWithoutEnd(h, h[list[i]].Children, fuel - 1)

rebuildVisibleList(m) ==
    IF RecursesWithoutEnd(m.heap,
                          IF m.zoomedBullet # NULL THEN <<m.zoomedBullet>> ELSE m.rootBullets,
                          Len(m.heap) + 1)
    THEN [m EXCEPT !.panicked = TRUE]
    ELSE
    [m EXCEPT !.allBullets =
        IF m.zoomedBullet # NULL
        THEN <<m.zoomedBullet>> \o GetVisibleDescendants(m.heap, m.zoomedBullet)
        ELSE Flatten([i \in 1..Len(m.rootBullets) |->
                 <<m.rootBullets[i]>> \o GetVisibleDescendants(m.heap, m.rootBullets[i])])]

getSelectedBullet(m) ==
    IF m.selectedIndex >= 0 /\ m.selectedIndex < Len(m.allBullets)
    THEN m.allBullets[m.selectedIndex + 1]
    ELSE NULL

\* "for i, b := range m.allBullets { if b.ID == id { m.selectedIndex = i; break } }"
selectByID(m, id) ==
    LET i == IndexOfID(m.heap, m.allBullets, id)
    IN  IF i = 0 THEN m ELSE [m EXCEPT !.selectedIndex = i - 1]

\* addNewBullet that appends to the root list whenever nothing is selected
addNewBulletRootAppend(m, content) ==
    LET newBullet == Len(m.heap) + 1
        h0 == Append(m.heap, NewBullet(m.nextId, content))
        selected == getSelectedBullet(m)
        parent == h0[selected].Parent
        index(list) == IndexOfID(h0, list, h0[selected].ID)
        m1 == IF selected = NULL
              THEN [m EXCEPT !.heap = h0, !.rootBullets = Append(@, newBullet)]
              ELSE IF m.zoomedBullet # NULL /\ (selected = m.zoomedBullet \/ parent = NULL)
                   THEN [m EXCEPT !.heap = AddChild(h0, m.zoomedBullet, newBullet)]
                   ELSE IF parent = NULL
                        THEN [m EXCEPT !.heap = h0,
                                       !.rootBullets = InsertAt(@, index(m.rootBullets), newBullet)]
                        ELSE [m EXCEPT !.heap = InsertChildAt(h0, parent,
                                                   index(h0[parent].Children), newBullet)]
        m2 == rebuildVisibleList([m1 EXCEPT !.nextId = @ + 1])
    IN  ensureSelectedVisible(selectByID(m2, m.nextId))

addNewBullet(m, content) ==
    LET newBullet == Len(m.heap) + 1
        h0 == Append(m.heap, NewBullet(m.nextId, content))
        selected == getSelectedBullet(m)
        parent == h0[selected].Parent
        \* index = i + 1 for the first sibling with the selected ID, else 0
        index(list) == IndexOfID(h0, list, h0[selected].ID)
        m1 == IF m.zoomedBullet # NULL
              THEN IF selected = NULL \/ selected = m.zoomedBullet
                   THEN [m EXCEPT !.heap = AddChild(h0, m.zoomedBullet, newBullet)]
                   ELSE IF parent = NULL
                        THEN [m EXCEPT !.heap = AddChild(h0, m.zoomedBullet, newBullet)]
                        ELSE [m EXCEPT !.heap = InsertChildAt(h0, parent,
                                                   index(h0[parent].Children), newBullet)]
              ELSE IF selected = NULL
                   THEN [m EXCEPT !.heap = h0, !.rootBullets = Append(@, newBullet)]
                   ELSE IF parent = NULL
                        THEN [m EXCEPT !.heap = h0,
                                       !.rootBullets = InsertAt(@, index(m.rootBullets), newBullet)]
                        ELSE [m EXCEPT !.heap = InsertChildAt(h0, parent,
                                                   index(h0[parent].Children), newBullet)]
        m2 == rebuildVisibleList([m1 EXCEPT !.nextId = @ + 1])
    IN  ensureSelectedVisible(selectByID(m2, m.nextId))

deleteBullet(m) ==
    LET selected == getSelectedBullet(m)
        Removed(i) ==
            IF m.heap[selected].Parent = NULL
            THEN IF i = 0 THEN m ELSE [m EXCEPT !.rootBullets = RemoveAt(@, i)]
            ELSE [m EXCEPT !.heap = RemoveChild(m.heap, m.heap[selected].Parent, selected)]
        Reselected(m2) ==
            IF m2.selectedIndex >= Len(m2.allBullets) /\ m2.selectedIndex > 0
            THEN [m2 EXCEPT !.selectedIndex = @ - 1] ELSE m2
    IN  IF selected = NULL THEN m
        ELSE ensureSelectedVisible(Reselected(rebuildVisibleList(
                 Removed(IndexOfID(m.heap, m.rootBullets, m.heap[selected].ID)))))

\* first position i > 0 (Go index) of list holding the selected ID, as 1-based
\* position; 0 if none: "if b.ID == selected.ID && i > 0 { ...; break }"
IndexAfterFirst(h, list, id) ==
    LET S == {i \in 2..Len(list) : h[list[i]].ID = id}
    IN  IF S = {} THEN 0 ELSE Min(S)

indentBullet(m) ==
    LET selected == getSelectedBullet(m)
        parent == m.heap[selected].Parent
        list == IF parent = NULL THEN m.rootBullets ELSE m.heap[parent].Children
        Attached(m1, prevSibling) ==
            IF prevSibling = NULL THEN m1
            ELSE [m1 EXCEPT !.heap =
                     [AddChild(@, prevSibling, selected)
                          EXCEPT ![prevSibling].Collapsed = FALSE]]
        Indented(i) ==
            Attached(IF i = 0 THEN m
                     ELSE IF parent = NULL
                          THEN [m EXCEPT !.rootBullets = RemoveAt(@, i)]
                          ELSE [m EXCEPT !.heap = RemoveChild(m.heap, parent, selected)],
                     IF i = 0 THEN NULL ELSE list[i - 1])
    IN  IF selected = NULL \/ m.selectedIndex = 0 THEN m
        ELSE ensureSelectedVisible(rebuildVisibleList(
                 Indented(IndexAfterFirst(m.heap, list, m.heap[selected].ID))))

outdentBullet(m) ==
    LET selected == getSelectedBullet(m)
        parent == m.heap[selected].Parent
        grandparent == m.heap[parent].Parent
        list == IF grandparent = NULL THEN m.rootBullets ELSE m.heap[grandparent].Children
        Inserted(h1, parentIndex) ==
            IF grandparent = NULL
            THEN IF parentIndex + 1 > Len(m.rootBullets)
                 \* m.rootBullets[parentIndex+1:] is out of range
                 THEN [m EXCEPT !.heap = h1, !.panicked = TRUE]
                 ELSE [m EXCEPT !.heap = h1,
                                !.rootBullets = InsertAt(@, parentIndex + 1, selected)]
            ELSE [m EXCEPT !.heap = InsertChildAt(h1, grandparent, parentIndex + 1, selected)]
        Outdented(found) ==
            Inserted(RemoveChild(m.heap, parent, selected), IF found = 0 THEN 0 ELSE found - 1)
        Rebuilt(m1) ==
            IF m1.panicked THEN m1 ELSE ensureSelectedVisible(rebuildVisibleList(m1))
    IN  IF selected = NULL THEN m
        ELSE IF parent = NULL THEN m
        ELSE Rebuilt(Outdented(IndexOfID(m.heap, list, m.heap[parent].ID)))

\* depth of b as moveBulletUp/moveBulletDown compute it
MoveDepth(m, h, b) ==
    IF m.zoomedBullet # NULL THEN GetDepthFrom(h, b, m.zoomedBullet) ELSE GetDepth(h, b)

\* the scan of the visible list for the nearest item at targetDepth: Go indexes
\* of the candidates in the scanned direction
ScanUp(m, targetDepth) ==
    {i \in 0..(m.selectedIndex - 1) : MoveDepth(m, m.heap, m.allBullets[i + 1]) = targetDepth}

ScanDown(m, targetDepth) ==
    {i \in (m.selectedIndex + 1)..(Len(m.allBullets) - 1) :
        MoveDepth(m, m.heap, m.allBullets[i + 1]) = targetDepth}

\* targetItem of moveBulletUp (up = TRUE) or moveBulletDown, NULL if none
MoveTarget(m, up) ==
    LET nearest(found) ==
            IF found = {} THEN NULL
            ELSE m.allBullets[(IF up THEN Max(found) ELSE Min(found)) + 1]
        pick(d) == nearest(IF up THEN ScanUp(m, d) ELSE ScanDown(m, d))
        retry(targetDepth, targetItem) ==
            IF targetItem # NULL THEN targetItem
            ELSE IF targetDepth > 0 THEN pick(targetDepth - 1)
            ELSE NULL
        search(targetDepth) == retry(targetDepth, pick(targetDepth))
    IN  search(MoveDepth(m, m.heap, getSelectedBullet(m)))

\* "Remove selected from its current parent"
MoveDetach(m, selected) ==
    LET i == IndexOfID(m.heap, m.rootBullets, m.heap[selected].ID)
    IN  IF m.heap[selected].Parent = NULL
        THEN IF i = 0 THEN m ELSE [m EXCEPT !.rootBullets = RemoveAt(@, i)]
        ELSE [m EXCEPT !.heap = RemoveChild(m.heap, m.heap[selected].Parent, selected)]

\* "Insert selected before (offset 0) / after (offset 1) targetItem at the
\* target's level"
MoveAttach(m, selected, targetItem, offset) ==
    LET targetItemDepth == MoveDepth(m, m.heap, targetItem)
        parent == m.heap[targetItem].Parent
        AtRoot(ri) ==
            [m EXCEPT !.rootBullets = IF ri = 0 THEN @ ELSE InsertAt(@, ri - 1 + offset, selected),
                      !.heap = [@ EXCEPT ![selected].Parent = NULL]]
        AsSibling(ci) ==
            IF ci = 0 THEN m
            ELSE [m EXCEPT !.heap = InsertChildAt(@, parent, ci - 1 + offset, selected)]
    IN  IF targetItemDepth = 0
        THEN AtRoot(IndexOfID(m.heap, m.rootBullets, m.heap[targetItem].ID))
        ELSE IF parent = NULL
             \* parent.Children on a nil parent
             THEN [m EXCEPT !.panicked = TRUE]
             ELSE AsSibling(IndexOfID(m.heap, m.heap[parent].Children, m.heap[targetItem].ID))

moveBulletUp(m) ==
    LET selected == getSelectedBullet(m)
        Reselected(m2) ==
            IF m2.selectedIndex > 0 THEN [m2 EXCEPT !.selectedIndex = @ - 1] ELSE m2
        Rebuilt(m1) ==
            IF m1.panicked THEN m1
            ELSE ensureSelectedVisible(Reselected(rebuildVisibleList(m1)))
        Moved(targetItem) ==
            IF targetItem = NULL THEN m
            ELSE Rebuilt(MoveAttach(MoveDetach(m, selected), selected, targetItem, 0))
    IN  IF selected = NULL THEN m ELSE Moved(MoveTarget(m, TRUE))

moveBulletDown(m) ==
    LET selected == getSelectedBullet(m)
        Reselected(m2) ==
            IF m2.selectedIndex < Len(m2.allBullets) - 1
            THEN [m2 EXCEPT !.selectedIndex = @ + 1] ELSE m2
        Rebuilt(m1) ==
            IF m1.panicked THEN m1
            ELSE ensureSelectedVisible(Reselected(rebuildVisibleList(m1)))
        Moved(targetItem) ==
            IF targetItem = NULL THEN m
            ELSE Rebuilt(MoveAttach(MoveDetach(m, selected), selected, targetItem, 1))
    IN  IF selected = NULL THEN m ELSE Moved(MoveTarget(m, FALSE))

\* the chain of Parent pointers from the forest root down to b itself
RECURSIVE PathTo(_, _)
PathTo(h, b) == IF b = NULL THEN <<>> ELSE Append(PathTo(h, h[b].Parent), b)

\* zoomIn that expands the node it zooms into
zoomInExpands(m) ==
    LET selected == getSelectedBullet(m)
        path == PathTo(m.heap, selected)
    IN  IF selected = NULL THEN m
        ELSE ensureSelectedVisible(rebuildVisibleList(
                 [m EXCEPT !.breadcrumbs = SubSeq(path, 1, Len(path) - 1),
                           !.zoomedBullet = selected,
                           !.heap[selected].Collapsed = FALSE,
                           !.selectedIndex = 0,
                           !.scrollOffset = 0]))

zoomIn(m) ==
    LET selected == getSelectedBullet(m)
        path == PathTo(m.heap, selected)
    IN  IF selected = NULL THEN m
        ELSE ensureSelectedVisible(rebuildVisibleList(
                 [m EXCEPT !.breadcrumbs = SubSeq(path, 1, Len(path) - 1),
                           !.zoomedBullet = selected,
                           !.selectedIndex = 0,
                           !.scrollOffset = 0]))

zoomOut(m) ==
    LET n == Len(m.breadcrumbs)
        m1 == IF n > 0
              THEN [m EXCEPT !.zoomedBullet = m.breadcrumbs[n],
                             !.breadcrumbs = SubSeq(@, 1, n - 1)]
              ELSE [m EXCEPT !.zoomedBullet = NULL, !.breadcrumbs = <<>>]
    IN  ensureSelectedVisible(rebuildVisibleList(
            [m1 EXCEPT !.selectedIndex = 0, !.scrollOffset = 0]))

\* ------------------------------------------------------------ key messages
\* msg.String() of the key messages sent to Update; a key that shares its case
\* with another ("k" with "up", "j" with "down", "space" with " ", "ctrl+c" with
\* "q") is sent as that other key, and "a" is the printable key
Keys == {"up", "down", "enter", "esc", "e", "d", "tab", "shift+tab", " ",
         "shift+up", "shift+down", "c", "t", "x", "s", "h", "right", "left", "q", "a"}

\* keys that insert their character into the focused text input
PrintableKeys == {"e", "d", "c", "t", "x", "s", "h", "q", "a", " "}

\* textinput.Update: a printable key appends its character while the value is
\* below the character limit; other keys leave the value unchanged
textInputUpdate(value, key) ==
    IF key \in PrintableKeys /\ Len(value) < MaxText THEN value \o key ELSE value

\* Update in AppModeSettings
UpdateSettings(m, key) ==
    CASE key \in {"q", "esc", "s"} -> [m EXCEPT !.appMode = AppModeNormal]
      [] key = "up" -> IF m.settingsIndex > 0 THEN [m EXCEPT !.settingsIndex = @ - 1] ELSE m
      [] key = "down" -> IF m.settingsIndex < 0 THEN [m EXCEPT !.settingsIndex = @ + 1] ELSE m
      [] key \in {"enter", " "} ->
            IF m.settingsIndex = 0
            THEN [m EXCEPT !.settings.ShowHierarchyLines = ~@]
            ELSE m
      [] OTHER -> m

\* Update in AppModeHelp
UpdateHelp(m, key) ==
    IF key \in {"q", "esc", "h"} THEN [m EXCEPT !.appMode = AppModeNormal] ELSE m

\* Update while m.editMode # EditModeNone
UpdateEditing(m, key) ==
    LET content == m.textInput
        m1 == IF m.editMode = EditModeNew
              THEN IF content # "" THEN addNewBullet(m, content) ELSE m
              ELSE IF m.editMode = EditModeEdit /\ m.editingBullet # NULL
                   THEN [m EXCEPT !.heap[m.editingBullet].Content = content,
                                  !.heap[m.editingBullet].IsEditing = FALSE]
                   ELSE m
    IN  CASE key = "enter" ->
               [m1 EXCEPT !.editMode = EditModeNone, !.editingBullet = NULL, !.textInput = ""]
          [] key = "esc" ->
               [m EXCEPT !.editMode = EditModeNone,
                         !.heap = IF m.editingBullet # NULL
                                  THEN [@ EXCEPT ![m.editingBullet].IsEditing = FALSE]
                                  ELSE @,
                         !.editingBullet = NULL,
                         !.textInput = ""]
          [] OTHER -> [m EXCEPT !.textInput = textInputUpdate(@, key)]

\* Update in AppModeNormal with no edit in progress
UpdateNormal(m, key) ==
    LET selected == getSelectedBullet(m)
    IN  CASE key = "q" -> m
          [] key = "up" ->
               IF m.selectedIndex > 0
               THEN ensureSelectedVisible([m EXCEPT !.selectedIndex = @ - 1]) ELSE m
          [] key = "down" ->
               IF m.selectedIndex < Len(m.allBullets) - 1
               THEN ensureSelectedVisible([m EXCEPT !.selectedIndex = @ + 1]) ELSE m
          [] key = "enter" -> [m EXCEPT !.editMode = EditModeNew, !.textInput = ""]
          [] key = "e" ->
               IF selected # NULL
               THEN [m EXCEPT !.editMode = EditModeEdit,
                              !.editingBullet = selected,
                              !.heap[selected].IsEditing = TRUE,
                              !.textInput = m.heap[selected].Content]
               ELSE m
          [] key = "d" -> deleteBullet(m)
          [] key = "tab" -> indentBullet(m)
          [] key = "shift+tab" -> outdentBullet(m)
          [] key = " " ->
               IF selected # NULL
               THEN ensureSelectedVisible(rebuildVisibleList(
                        [m EXCEPT !.heap = Toggle(@, selected)]))
               ELSE m
          [] key = "shift+up" -> moveBulletUp(m)
          [] key = "shift+down" -> moveBulletDown(m)
          [] key = "c" -> IF selected # NULL THEN [m EXCEPT !.heap = CycleColor(@, selected)] ELSE m
          [] key = "t" -> IF selected # NULL THEN [m EXCEPT !.heap = ToggleTask(@, selected)] ELSE m
          [] key = "x" ->
               IF selected # NULL THEN [m EXCEPT !.heap = ToggleComplete(@, selected)] ELSE m
          [] key = "s" -> [m EXCEPT !.appMode = AppModeSettings, !.settingsIndex = 0]
          [] key = "h" -> [m EXCEPT !.appMode = AppModeHelp]
          [] key = "right" -> zoomIn(m)
          [] key = "left" -> zoomOut(m)
          [] OTHER -> m

\* Model.Update for a tea.KeyMsg
Update(m, key) ==
    IF m.appMode = AppModeSettings THEN UpdateSettings(m, key)
    ELSE IF m.appMode = AppModeHelp THEN UpdateHelp(m, key)
    ELSE IF m.editMode # EditModeNone THEN UpdateEditing(m, key)
    ELSE UpdateNormal(m, key)

\* whether Model.Update calls m.saveData() while handling key in m
UpdateSavesData(m, key) ==
    IF m.appMode = AppModeSettings THEN key \in {"enter", " "} /\ m.settingsIndex = 0
    ELSE IF m.appMode = AppModeHelp THEN FALSE
    ELSE IF m.editMode # EditModeNone
         THEN /\ key = "enter"
              /\ \/ m.editMode = EditModeNew /\ m.textInput # ""
                 \/ m.editMode = EditModeEdit /\ m.editingBullet # NULL
    ELSE \/ key = "q"
         \/ key = "d" /\ getSelectedBullet(m) # NULL

\* whether Model.Update returns tea.Quit
UpdateQuits(m, key) ==
    m.appMode = AppModeNormal /\ m.editMode = EditModeNone /\ key = "q"

\* Model.Update for a tea.WindowSizeMsg
UpdateWindowSize(m, rows) == [m EXCEPT !.height = rows]

\* keys after which SSHModel.Update calls saveSSHData
SSHSaveKeys == {"enter", "d", "tab", "shift+tab", "shift+up", "shift+down",
                "c", "t", "x", "e", "q"}

\* ------------------------------------------------------------ durable file
\* A data.json file is absent or holds bytes.  Bytes that json.Unmarshal accepts
\* are modelled by the JSON value they hold: [rootBullets, settings] with each
\* bullet object [ID, Content, Children, Collapsed, IsEditing, Color, IsTask,
\* Completed] (the "Parent" key is always null), Content being the string
\* literal as written; an ID is a uuid, which is written as it is.  Other
\* bytes are the empty file or garbage.
FileAbsent == [kind |-> "absent"]
FileEmpty == [kind |-> "empty"]
FileGarbage == [kind |-> "garbage"]
FileJSON(doc) == [kind |-> "json", doc |-> doc]

\* encoding/json writes a string between quotes with the quote, the backslash
\* and the newline escaped, and (HTML escaping being on) <, > and & as \u00XX
JsonEscape(c) ==
    CASE c = "\"" -> "\\\""
      [] c = "\\" -> "\\\\"
      [] c = "\n" -> "\\n"
      [] c = "<" -> "\\u003c"
      [] c = ">" -> "\\u003e"
      [] c = "&" -> "\\u0026"
      [] OTHER -> c

\* the escaped characters lo..hi of s, concatenated
RECURSIVE EscapeRange(_, _, _)
EscapeRange(s, lo, hi) ==
    IF lo > hi THEN ""
    ELSE IF lo = hi THEN JsonEscape(SubSeq(s, lo, lo))
    ELSE EscapeRange(s, lo, (lo + hi) \div 2) \o EscapeRange(s, (lo + hi) \div 2 + 1, hi)

\* json.Marshal of a Go string
marshalString(s) == "\"" \o EscapeRange(s, 1, Len(s)) \o "\""

\* the character a \uXXXX escape denotes; escapes the encoder never writes
\* decode to a character outside the modelled alphabet
UnicodeEscape(hex) ==
    CASE hex = "003c" -> "<"
      [] hex = "003e" -> ">"
      [] hex = "0026" -> "&"
      [] OTHER -> "?"

\* The decoder reads a literal left to right; a backslash opens an escape
\* unless it is itself the escaped character, that is, iff the run of
\* backslashes just before it has even length.
BackslashRun(e, i) ==
    LET stops == {j \in 1..(i - 1) : SubSeq(e, j, j) # "\\"}
    IN  i - 1 - (IF stops = {} THEN 0 ELSE Max(stops))

OpensEscape(e, i) ==
    i >= 1 /\ SubSeq(e, i, i) = "\\" /\ BackslashRun(e, i) % 2 = 0

\* what the decoder emits for position i of the literal's body
Unescaped(e, i) ==
    IF OpensEscape(e, i)
    THEN LET d == SubSeq(e, i + 1, i + 1)
         IN  IF d = "u" THEN UnicodeEscape(SubSeq(e, i + 2, i + 5))
             ELSE IF d = "n" THEN "\n" ELSE d
    ELSE IF OpensEscape(e, i - 1) THEN ""
    ELSE IF \E k \in 2..5 : OpensEscape(e, i - k) /\ SubSeq(e, i - k + 1, i - k + 1) = "u"
         THEN ""
         ELSE SubSeq(e, i, i)

RECURSIVE UnescapeRange(_, _, _)
UnescapeRange(e, lo, hi) ==
    IF lo > hi THEN ""
    ELSE IF lo = hi THEN Unescaped(e, lo)
    ELSE UnescapeRange(e, lo, (lo + hi) \div 2) \o UnescapeRange(e, (lo + hi) \div 2 + 1, hi)

\* json.Unmarshal of a string literal into a Go string
unmarshalString(e) == UnescapeRange(SubSeq(e, 2, Len(e) - 1), 1, Len(e) - 2)

\* AppData as the codecs exchange it with the model
AppData(h, roots, settings) == [heap |-> h, RootBullets |-> roots, Settings |-> settings]

\* json.MarshalIndent of a Bullet copy: the object of a bullet whose Children
\* objects are kids
BulletObject(b, kids, isEditing) ==
    [ID |-> b.ID, Content |-> marshalString(b.Content), Children |-> kids,
     Collapsed |-> b.Collapsed, IsEditing |-> isEditing, Color |-> b.Color, IsTask |-> b.IsTask,
     Completed |-> b.Completed]

\* ConfigManager.copyBulletForSerialization
RECURSIVE copyBulletForSerialization(_, _)
copyBulletForSerialization(h, bullet) ==
    BulletObject(h[bullet],
                 [i \in 1..Len(h[bullet].Children) |->
                     copyBulletForSerialization(h, h[bullet].Children[i])],
                 FALSE)

\* ConfigManager.prepareForSerialization
prepareForSerialization(data) ==
    [rootBullets |-> [i \in 1..Len(data.RootBullets) |->
                         copyBulletForSerialization(data.heap, data.RootBullets[i])],
     settings |-> data.Settings]

\* ConfigManager.Save: the bytes written to the config file
ConfigSave(data) == FileJSON(prepareForSerialization(data))

\* a copy that forgets the Completed field
RECURSIVE copyBulletsWithoutCompleted(_, _)
copyBulletsWithoutCompleted(h, bullets) ==
    [i \in 1..Len(bullets) |->
        BulletObject([h[bullets[i]] EXCEPT !.Completed = FALSE],
                     copyBulletsWithoutCompleted(h, h[bullets[i]].Children),
                     FALSE)]

\* copyBulletsWithoutParents: IsEditing is not copied and keeps its zero value
RECURSIVE copyBulletsWithoutParents(_, _)
copyBulletsWithoutParents(h, bullets) ==
    [i \in 1..Len(bullets) |->
        BulletObject(h[bullets[i]],
                     copyBulletsWithoutParents(h, h[bullets[i]].Children),
                     FALSE)]

\* SSHConfigManager.Save: the bytes written to the user's data.json
SSHSave(data) ==
    FileJSON([rootBullets |-> copyBulletsWithoutParents(data.heap, data.RootBullets),
              settings |-> data.Settings])

\* json.Unmarshal of a list of bullet objects into freshly allocated Bullets,
\* in document order; Parent is nil and IsEditing is what the object says
RECURSIVE UnmarshalBullets(_, _)
UnmarshalBullets(h, objects) ==
    IF objects = <<>> THEN [heap |-> h, ptrs |-> <<>>]
    ELSE LET o == Head(objects)
             p == Len(h) + 1
             h1 == Append(h, [ID |-> o.ID, Content |-> unmarshalString(o.Content), Children |-> <<>>,
                              Parent |-> NULL, Collapsed |-> o.Collapsed,
                              IsEditing |-> o.IsEditing, Color |-> o.Color,
                              IsTask |-> o.IsTask, Completed |-> o.Completed])
             kids == UnmarshalBullets(h1, o.Children)
             h2 == [kids.heap EXCEPT ![p].Children = kids.ptrs]
             rest == UnmarshalBullets(h2, Tail(objects))
         IN  [heap |-> rest.heap, ptrs |-> <<p>> \o rest.ptrs]

\* json.Unmarshal(bytes, &appData): err is TRUE when the bytes do not parse
Unmarshal(file) ==
    IF file.kind = "json"
    THEN LET u == UnmarshalBullets(<<>>, file.doc.rootBullets)
         IN  [err |-> FALSE, data |-> AppData(u.heap, u.ptrs, file.doc.settings)]
    ELSE [err |-> TRUE, data |-> AppData(<<>>, <<>>, [ShowHierarchyLines |-> FALSE])]

\* ConfigManager.restoreParentRelationshipsRecursive over a list
RECURSIVE restoreParentRelationships(_, _, _)
restoreParentRelationships(h, bullets, parent) ==
    IF bullets = <<>> THEN h
    ELSE LET b == Head(bullets)
             h1 == [h EXCEPT ![b].Parent = parent, ![b].IsEditing = FALSE]
             h2 == restoreParentRelationships(h1, h1[b].Children, b)
         IN  restoreParentRelationships(h2, Tail(bullets), parent)

\* setParentRefs (restoreParentReferences calls it with a nil parent)
RECURSIVE setParentRefs(_, _, _)
setParentRefs(h, bullets, parent) ==
    IF bullets = <<>> THEN h
    ELSE LET b == Head(bullets)
             h1 == [h EXCEPT ![b].Parent = parent]
             h2 == setParentRefs(h1, h1[b].Children, b)
         IN  setParentRefs(h2, Tail(bullets), parent)

\* the nodes "root, then root.AddChild(...)" builds: a list of texts becomes
\* children of parent with consecutive uuids from id
RECURSIVE AddChildren(_, _, _, _)
AddChildren(h, parent, id, texts) ==
    IF texts = <<>> THEN h
    ELSE AddChildren(AddChild(Append(h, NewBullet(id, Head(texts))), parent, Len(h) + 1),
                     parent, id + 1, Tail(texts))

\* ConfigManager.createDefaultData (cmd/ocli-ssh/persistence.go): the tutorial
\* (the arrow glyphs of the source texts are spelled out in words)
createDefaultData(id) ==
    LET h1 == <<NewBullet(id, "Welcome to OCLI!")>>
        h2 == AddChildren(h1, 1, id + 1,
                  <<"Press Enter to add bullets, arrows to navigate",
                    "Tab/Shift+Tab to indent/outdent",
                    "Press 't' for tasks, 'x' to complete",
                    "Press 'c' for colors",
                    "Space to collapse/expand, right arrow to zoom in">>)
        h3 == AddChildren(ToggleTask([h2 EXCEPT ![5].Color = ColorBlue], 4), 6, id + 6,
                  <<"Hidden content">>)
        h4 == AddChildren(h3, 1, id + 7,
                  <<"Press 'h' for help, 's' for settings, 'q' to quit">>)
    IN  AppData(h4, <<1>>, [ShowHierarchyLines |-> TRUE])

\* getDefaultSSHData: the tutorial personalised with the username
getDefaultSSHData(username, id) ==
    LET h1 == <<NewBullet(id, "Welcome to OCLI over SSH, " \o username \o "!")>>
        h2 == AddChildren(h1, 1, id + 1,
                  <<"Press Enter to add bullets, arrows to navigate",
                    "Tab/Shift+Tab to indent/outdent",
                    "Press 't' for tasks, 'x' to complete",
                    "Press 'c' for colors",
                    "Space to collapse/expand, right arrow to zoom in">>)
        h3 == AddChildren(ToggleTask([h2 EXCEPT ![5].Color = ColorBlue], 4), 6, id + 6,
                  <<"Hidden content">>)
        h4 == AddChildren(h3, 1, id + 7,
                  <<"Press 'h' for help, 's' for settings, 'q' to quit",
                    "Your data is saved automatically on this server">>)
    IN  AppData(h4, <<1>>, [ShowHierarchyLines |-> TRUE])

\* a Load that hands out the tutorial whenever the record holds no bullet
ConfigLoadTutorialIfEmpty(file, id) ==
    IF file.kind = "absent"
    THEN [err |-> FALSE, data |-> createDefaultData(id)]
    ELSE LET Parsed(u) ==
                 IF u.err THEN [err |-> TRUE, data |-> u.data]
                 ELSE IF u.data.RootBullets = <<>>
                      THEN [err |-> FALSE, data |-> createDefaultData(id)]
                      ELSE [err |-> FALSE,
                            data |-> [u.data EXCEPT !.heap =
                                        restoreParentRelationships(@, u.data.RootBullets, NULL)]]
         IN  Parsed(Unmarshal(file))

\* ConfigManager.Load: [err, data]; id is the next uuid
ConfigLoad(file, id) ==
    IF file.kind = "absent"
    THEN [err |-> FALSE, data |-> createDefaultData(id)]
    ELSE LET Parsed(u) ==
                 IF u.err THEN [err |-> TRUE, data |-> u.data]
                 ELSE [err |-> FALSE,
                       data |-> [u.data EXCEPT !.heap =
                                   restoreParentRelationships(@, u.data.RootBullets, NULL)]]
         IN  Parsed(Unmarshal(file))

\* SSHConfigManager.Load
SSHLoad(file, username, id) ==
    IF file.kind = "absent"
    THEN [err |-> FALSE, data |-> getDefaultSSHData(username, id)]
    ELSE LET Parsed(u) ==
                 IF u.err THEN [err |-> TRUE, data |-> u.data]
                 ELSE [err |-> FALSE,
                       data |-> [u.data EXCEPT !.heap = setParentRefs(@, u.data.RootBullets, NULL)]]
         IN  Parsed(Unmarshal(file))

\* createDefaultData of the ConfigManager of the ocli program (src/persistence.go)
ocliCreateDefaultData(id) ==
    LET h1 == <<NewBullet(id, "Welcome to terminal Workflowy!")>>
        h2 == AddChildren(h1, 1, id + 1,
                  <<"Press Enter to add a new bullet",
                    "Use arrow keys to navigate",
                    "Tab/Shift+Tab to indent/outdent">>)
        h3 == AddChildren(h2, 4, id + 4, <<"Space to collapse/expand">>)
    IN  AppData(h3, <<1>>, [ShowHierarchyLines |-> TRUE])

\* ConfigManager.Load of the ocli program: the statements of ConfigLoad, with
\* its own createDefaultData for a missing file
ocliConfigLoad(file, id) ==
    IF file.kind = "absent"
    THEN [err |-> FALSE, data |-> ocliCreateDefaultData(id)]
    ELSE ConfigLoad(file, id)

\* --------------------------------------------------------- construction
\* the next uuid after the IDs a heap already uses
NextUuid(h, id) == Max({id} \cup {h[p].ID + 1 : p \in 1..Len(h)})

\* NewModel: the model over the local config file (the config manager is
\* assumed to initialise; a failed Load falls back to loadDefaults)
NewModel(localFile, id) ==
    LET m(data) == [heap |-> data.heap,
                    rootBullets |-> data.RootBullets,
                    allBullets |-> <<>>,
                    selectedIndex |-> 0,
                    editMode |-> EditModeNone,
                    appMode |-> AppModeNormal,
                    textInput |-> "",
                    editingBullet |-> NULL,
                    height |-> 0,
                    settings |-> data.Settings,
                    settingsIndex |-> 0,
                    zoomedBullet |-> NULL,
                    breadcrumbs |-> <<>>,
                    scrollOffset |-> 0,
                    nextId |-> NextUuid(data.heap, id),
                    panicked |-> FALSE]
        Loaded(load) == m(IF ~load.err THEN load.data ELSE createDefaultData(id))
    IN  ensureSelectedVisible(rebuildVisibleList(Loaded(ConfigLoad(localFile, id))))

\* NewSSHModel: the base model with the user's data in place of the local data
\* (the bullets NewModel loaded are dropped with the overwritten slice)
NewSSHModel(username, userFile, localFile, id) ==
    LET baseModel == NewModel(localFile, id)
        WithData(data) ==
            rebuildVisibleList([baseModel EXCEPT !.heap = data.heap,
                                                 !.rootBullets = data.RootBullets,
                                                 !.settings = data.Settings,
                                                 !.nextId = NextUuid(data.heap, id)])
        Loaded(load) ==
            WithData(IF load.err THEN getDefaultSSHData(username, id) ELSE load.data)
    IN  Loaded(SSHLoad(userFile, username, id))

\* Model.saveData: the bytes ConfigManager.Save writes for m
saveData(m) == ConfigSave(AppData(m.heap, m.rootBullets, m.settings))

\* SSHModel.saveSSHData: the bytes SSHConfigManager.Save writes for m
saveSSHData(m) == SSHSave(AppData(m.heap, m.rootBullets, m.settings))

\* ------------------------------------------------- durable records at start
\* parent vectors of the ordered forests on nodes 1..n numbered in document order
RECURSIVE AncestorsOrSelf(_, _)
AncestorsOrSelf(p, j) == IF j = 0 THEN {} ELSE {j} \cup AncestorsOrSelf(p, p[j])

ForestShapes(n) ==
    {p \in [1..n -> 0..n] :
        \A i \in 1..n : /\ p[i] < i
                        /\ i > 1 => (p[i] = 0 \/ p[i] \in AncestorsOrSelf(p, i - 1))}

ChildrenIn(p, n, j) ==
    LET S == {i \in 1..n : p[i] = j}
        RECURSIVE Asc(_)
        Asc(T) == IF T = {} THEN <<>> ELSE <<Min(T)>> \o Asc(T \ {Min(T)})
    IN  Asc(S)

\* contents of the nodes of a stored record
StoredContent(i) == <<"n1", "n2", "n3", "n4", "n5">>[i]

RECURSIVE StoredObjects(_, _, _)
StoredObjects(p, n, nodes) ==
    [k \in 1..Len(nodes) |->
        BulletObject(NewBullet(nodes[k], StoredContent(nodes[k])),
                     StoredObjects(p, n, ChildrenIn(p, n, nodes[k])), FALSE)]

\* the data.json files a session may find: none, an empty file, garbage, or a
\* document of up to MaxInitNodes nodes that an earlier Save wrote
StoredFiles ==
    {FileAbsent, FileEmpty, FileGarbage} \cup
    UNION {{FileJSON([rootBullets |-> StoredObjects(p, n, ChildrenIn(p, n, 0)),
                      settings |-> [ShowHierarchyLines |-> TRUE]]) :
               p \in ForestShapes(n)} : n \in 0..MaxInitNodes}

\* rows of the terminal windows the model resizes to
WindowHeights == {ChromeRows + 1, ChromeRows + 3}

Usernames == {"alice"}

\* ------------------------------------------------------------------ state
VARIABLES
    session,    \* the Model (local) or SSHModel.Model (ssh) of the session
    mode,       \* "local": ocli with ConfigManager; "ssh": SSHModel over it
    username,   \* the SSH user of the session
    userFile,   \* <data-dir>/users/<username>/data.json
    localFile,  \* ~/.config/ocli/data.json of the process
    origFile,   \* history: the session's own data file as construction found it
    ops,        \* number of messages processed
    status,     \* "active", "quit" (tea.Quit returned) or "panicked"
    codecKind,  \* "local": ConfigManager; "ssh": SSHConfigManager; "ocli": the
                \* ConfigManager of the ocli program
    liveData,   \* the AppData the codec's caller holds
    dataFile,   \* the file the codec reads and writes
    written,    \* history: the document the bytes of dataFile were written from
    lastCall,   \* the codec call made last: "Load", "Save" or none
    loadErr,    \* whether the last Load returned an error
    codecOps,   \* number of changes made to liveData
    authorizedKeys, \* AuthManager.authorizedKeys: username -> authorized keys
    usersDir,   \* <data-dir>/users: username -> the user's directory
    autoRegister, \* Server.autoRegister
    authLast,   \* history: the last call made to the auth store and its result
    authOps,    \* number of calls made to the auth store
    conns,      \* the connections inside authHandler: position and locals
    mapWriter,  \* the connection that is writing authorizedKeys, if any
    serverStatus, \* "running", or "fatal" after a Go runtime fatal error
    sessions,   \* the connections of the server: position, SSH user, SSHModel
    dataFiles   \* <data-dir>/users: directory -> its data.json

sessionVars == <<session, mode, username, userFile, localFile, origFile, ops, status>>
codecVars == <<codecKind, liveData, dataFile, written, lastCall, loadErr, codecOps>>
authVars == <<authorizedKeys, usersDir, autoRegister, authLast, authOps,
              conns, mapWriter, serverStatus, sessions, dataFiles>>
vars == <<sessionVars, codecVars, authVars>>

\* a Go map with no entry
EmptyMap == [x \in {} |-> <<>>]

\* no server runs
AuthIdle ==
    /\ authorizedKeys = EmptyMap
    /\ usersDir = EmptyMap
    /\ autoRegister = FALSE
    /\ authLast = [call |-> "none"]
    /\ authOps = 0
    /\ conns = EmptyMap
    /\ mapWriter = 0
    /\ serverStatus = "none"
    /\ sessions = EmptyMap
    /\ dataFiles = EmptyMap

\* no codec is under test
CodecIdle ==
    /\ codecKind = "none"
    /\ liveData = AppData(<<>>, <<>>, [ShowHierarchyLines |-> FALSE])
    /\ dataFile = FileAbsent
    /\ written = [valid |-> FALSE]
    /\ lastCall = "none"
    /\ loadErr = FALSE
    /\ codecOps = 0

Init ==
    /\ mode \in {"local", "ssh"}
    /\ username \in Usernames
    /\ origFile \in StoredFiles
    /\ userFile = IF mode = "ssh" THEN origFile ELSE FileAbsent
    /\ localFile = IF mode = "local" THEN origFile ELSE FileAbsent
    /\ session = IF mode = "ssh" THEN NewSSHModel(username, userFile, localFile, 1)
                 ELSE NewModel(localFile, 1)
    /\ ops = 0
    /\ status = "active"
    /\ CodecIdle
    /\ AuthIdle

\* The program after one tea.KeyMsg went through Model.Update (local) or
\* SSHModel.Update (ssh): the model, the two data files and the status.
\* saveData runs inside Model.Update, saveSSHData after it; a panic ends the
\* program before either.
Program(m, lf, uf, st) == [m |-> m, localFile |-> lf, userFile |-> uf, status |-> st]

AfterKey(p, key) ==
    LET Updated(m1) ==
            Program(m1,
                    IF ~m1.panicked /\ UpdateSavesData(p.m, key)
                    THEN saveData(m1) ELSE p.localFile,
                    IF ~m1.panicked /\ mode = "ssh" /\ key \in SSHSaveKeys
                    THEN saveSSHData(m1) ELSE p.userFile,
                    IF m1.panicked THEN "panicked"
                    ELSE IF UpdateQuits(p.m, key) THEN "quit"
                    ELSE "active")
    IN  IF p.status # "active" THEN p ELSE Updated(Update(p.m, key))

RECURSIVE AfterKeys(_, _)
AfterKeys(p, keys) ==
    IF keys = <<>> THEN p ELSE AfterKeys(AfterKey(p, Head(keys)), Tail(keys))

\* the key messages keys, in order, within the budget of bound messages
KeyMsgs(keys, bound) ==
    /\ status = "active"
    /\ ops + Len(keys) <= bound
    /\ \E p \in {AfterKeys(Program(session, localFile, userFile, status), keys)} :
          /\ session' = p.m
          /\ localFile' = p.localFile
          /\ userFile' = p.userFile
          /\ status' = p.status
    /\ ops' = ops + Len(keys)
    /\ UNCHANGED <<mode, username, origFile>>
    /\ UNCHANGED codecVars
    /\ UNCHANGED authVars

KeyMsg(key) == KeyMsgs(<<key>>, MaxOps)

\* one tea.WindowSizeMsg
WindowSizeMsg ==
    /\ status = "active"
    /\ ops < MaxOps
    /\ \E rows \in WindowHeights : session' = UpdateWindowSize(session, rows)
    /\ ops' = ops + 1
    /\ UNCHANGED <<mode, username, userFile, localFile, origFile, status>>
    /\ UNCHANGED codecVars
    /\ UNCHANGED authVars

NavigateUp == KeyMsg("up")
NavigateDown == KeyMsg("down")
PressEnter == KeyMsg("enter")
PressEsc == KeyMsg("esc")
StartEdit == KeyMsg("e")
Delete == KeyMsg("d")
Indent == KeyMsg("tab")
Outdent == KeyMsg("shift+tab")
ToggleCollapse == KeyMsg(" ")
MoveUp == KeyMsg("shift+up")
MoveDown == KeyMsg("shift+down")
Color == KeyMsg("c")
Task == KeyMsg("t")
Complete == KeyMsg("x")
OpenSettings == KeyMsg("s")
OpenHelp == KeyMsg("h")
ZoomIn == KeyMsg("right")
ZoomOut == KeyMsg("left")
Quit == KeyMsg("q")
TypeLetter == KeyMsg("a")

Next ==
    \/ NavigateUp \/ NavigateDown \/ PressEnter \/ PressEsc \/ StartEdit
    \/ Delete \/ Indent \/ Outdent \/ ToggleCollapse \/ MoveUp \/ MoveDown
    \/ Color \/ Task \/ Complete \/ OpenSettings \/ OpenHelp
    \/ ZoomIn \/ ZoomOut \/ Quit \/ TypeLetter \/ WindowSizeMsg

Spec == Init /\ [][Next]_vars

\* ---- sessions that only restructure: navigation, insert, delete, indent,
\* outdent, move, collapse and zoom, over SSH
TreeKey(key) == KeyMsgs(<<key>>, MaxTreeOps)

TreeInit == Init /\ mode = "ssh"

\* "enter", one character, "enter": a new bullet with that text
TreeInsert == KeyMsgs(<<"enter", "a", "enter">>, MaxTreeOps)
TreeNavigateUp == TreeKey("up")
TreeNavigateDown == TreeKey("down")
TreeDelete == TreeKey("d")
TreeIndent == TreeKey("tab")
TreeOutdent == TreeKey("shift+tab")
TreeToggleCollapse == TreeKey(" ")
TreeMoveUp == TreeKey("shift+up")
TreeMoveDown == TreeKey("shift+down")
TreeZoomIn == TreeKey("right")
TreeZoomOut == TreeKey("left")

TreeNext ==
    \/ TreeInsert \/ TreeNavigateUp \/ TreeNavigateDown \/ TreeDelete
    \/ TreeIndent \/ TreeOutdent \/ TreeToggleCollapse
    \/ TreeMoveUp \/ TreeMoveDown \/ TreeZoomIn \/ TreeZoomOut

SpecTree == TreeInit /\ [][TreeNext]_vars

\* ------------------------------------------------------------ the Document
\* the nodes of the Document of m: those reachable from the root list through
\* Children lists
RECURSIVE ReachFrom(_, _, _)
ReachFrom(h, frontier, seen) ==
    IF frontier \subseteq seen THEN seen
    ELSE ReachFrom(h,
                   UNION {{h[n].Children[i] : i \in 1..Len(h[n].Children)} : n \in frontier},
                   seen \cup frontier)

DocNodes(m) == ReachFrom(m.heap, {m.rootBullets[i] : i \in 1..Len(m.rootBullets)}, {})

\* the places (list owner, position) where node c is listed in the Document;
\* owner NULL is the root list
Places(m, c) ==
    {<<NULL, i>> : i \in {j \in 1..Len(m.rootBullets) : m.rootBullets[j] = c}}
    \cup UNION {{<<n, i>> : i \in {j \in 1..Len(m.heap[n].Children) :
                                      m.heap[n].Children[j] = c}} : n \in DocNodes(m)}

\* the nodes met walking the Parent pointers up from b, at most fuel steps
RECURSIVE AncestorsWithin(_, _, _)
AncestorsWithin(h, b, fuel) ==
    IF fuel = 0 \/ h[b].Parent = NULL THEN {}
    ELSE {h[b].Parent} \cup AncestorsWithin(h, h[b].Parent, fuel - 1)

\* pre-order traversal of the forest below list, at most fuel levels deep
RECURSIVE PreOrder(_, _, _)
PreOrder(h, list, fuel) ==
    IF fuel = 0 THEN <<>>
    ELSE Flatten([i \in 1..Len(list) |->
                    <<list[i]>> \o PreOrder(h, h[list[i]].Children, fuel - 1)])

NoRepeats(seq) == \A i, j \in 1..Len(seq) : seq[i] = seq[j] => i = j

ForestInvariant(m) ==
    /\ \A c \in DocNodes(m) :
          /\ Cardinality(Places(m, c)) = 1
          /\ c \notin AncestorsWithin(m.heap, c, Len(m.heap) + 1)
    /\ \A i \in 1..Len(m.rootBullets) : m.heap[m.rootBullets[i]].Parent = NULL
    /\ \A n \in DocNodes(m) : \A i \in 1..Len(m.heap[n].Children) :
          m.heap[m.heap[n].Children[i]].Parent = n
    /\ NoRepeats(PreOrder(m.heap, m.rootBullets, Len(m.heap) + 1))

\* C1: after any sequence of insert, delete, indent, outdent, move, collapse
\* and zoom operations, zoomed or not, the Document is a forest: every node is
\* listed exactly once, under the node its Parent names (roots have none), no
\* node is its own ancestor and the pre-order traversal repeats no node.
C1_ForestInvariant == ForestInvariant(session)

\* a zoomed session whose Document holds an inserted node two levels down and
\* whose record on disk is no longer the one it started from
C1_Witness ==
    /\ session.zoomedBullet # NULL
    /\ origFile.kind = "json"
    /\ \E c \in DocNodes(session) :
          /\ session.heap[c].Content = "a"
          /\ session.heap[c].Parent # NULL
          /\ session.heap[session.heap[c].Parent].Parent # NULL
    /\ userFile.kind = "json" /\ userFile # origFile

\* ------------------------------------------------------------- the codecs
\* what a Document is compared by: root order, child order and each node's ID,
\* content, collapsed flag, color, task flag and completed flag, and Settings
RECURSIVE NodeViews(_, _, _)
NodeViews(h, list, fuel) ==
    [i \in 1..Len(list) |->
        [ID |-> h[list[i]].ID, Content |-> h[list[i]].Content,
         Collapsed |-> h[list[i]].Collapsed, Color |-> h[list[i]].Color,
         IsTask |-> h[list[i]].IsTask, Completed |-> h[list[i]].Completed,
         Children |-> IF fuel = 0 THEN <<>>
                      ELSE NodeViews(h, h[list[i]].Children, fuel - 1)]]

DocView(data) ==
    [RootBullets |-> NodeViews(data.heap, data.RootBullets, Len(data.heap)),
     Settings |-> data.Settings]

\* field values of the nodes of the records and documents handed to a codec
NodeFlavours ==
    <<[Content |-> "n", Collapsed |-> FALSE, Color |-> ColorDefault,
       IsTask |-> FALSE, Completed |-> FALSE, IsEditing |-> FALSE],
      [Content |-> "a<\"\\&>", Collapsed |-> TRUE, Color |-> ColorRed,
       IsTask |-> TRUE, Completed |-> TRUE, IsEditing |-> FALSE],
      [Content |-> "", Collapsed |-> FALSE, Color |-> ColorBlue,
       IsTask |-> TRUE, Completed |-> FALSE, IsEditing |-> TRUE]>>

\* a Bullet literal with the given ID and field values
BulletLiteral(id, f) ==
    [NewBullet(id, f.Content) EXCEPT !.Collapsed = f.Collapsed, !.Color = f.Color,
                                     !.IsTask = f.IsTask, !.Completed = f.Completed,
                                     !.IsEditing = f.IsEditing]

\* the objects of a record of shape p whose node i has the field values f[i]
RECURSIVE RecordObjects(_, _, _, _)
RecordObjects(p, n, f, nodes) ==
    [k \in 1..Len(nodes) |->
        BulletObject(BulletLiteral(nodes[k], f[nodes[k]]),
                     RecordObjects(p, n, f, ChildrenIn(p, n, nodes[k])),
                     f[nodes[k]].IsEditing)]

\* the document that record was written from
RECURSIVE RecordViews(_, _, _, _)
RecordViews(p, n, f, nodes) ==
    [k \in 1..Len(nodes) |->
        [ID |-> nodes[k], Content |-> f[nodes[k]].Content,
         Collapsed |-> f[nodes[k]].Collapsed, Color |-> f[nodes[k]].Color,
         IsTask |-> f[nodes[k]].IsTask, Completed |-> f[nodes[k]].Completed,
         Children |-> RecordViews(p, n, f, ChildrenIn(p, n, nodes[k]))]]

\* the files a codec may find, each with the document its bytes were written from;
\* the nodes of a record take the field values in turn, from each starting point
CodecFiles ==
    {[file |-> x, written |-> [valid |-> FALSE]] : x \in {FileAbsent, FileEmpty, FileGarbage}}
    \cup
    UNION {{[file |-> FileJSON([rootBullets |-> RecordObjects(p, n, f, ChildrenIn(p, n, 0)),
                                settings |-> [ShowHierarchyLines |-> lines]]),
             written |-> [valid |-> TRUE,
                          view |-> [RootBullets |-> RecordViews(p, n, f, ChildrenIn(p, n, 0)),
                                    Settings |-> [ShowHierarchyLines |-> lines]]]] :
               p \in ForestShapes(n),
               f \in {[i \in 1..n |-> NodeFlavours[((i + k) % Len(NodeFlavours)) + 1]] :
                         k \in 1..Len(NodeFlavours)},
               lines \in BOOLEAN} :
           n \in 0..MaxCodecNodes}

\* cm.Save(data) of the codec under test: the bytes written
CodecSaveBytes(kind, data) ==
    IF kind \in {"local", "ocli"} THEN ConfigSave(data) ELSE SSHSave(data)

\* cm.Load() of the codec under test
CodecLoadResult(kind, file, id) ==
    IF kind = "local" THEN ConfigLoad(file, id)
    ELSE IF kind = "ocli" THEN ocliConfigLoad(file, id)
    ELSE SSHLoad(file, "alice", id)

\* no session runs
SessionIdle ==
    /\ session = NewModel(FileAbsent, 1)
    /\ mode = "none"
    /\ username = "alice"
    /\ userFile = FileAbsent
    /\ localFile = FileAbsent
    /\ origFile = FileAbsent
    /\ ops = 0
    /\ status = "idle"

CodecInit ==
    /\ SessionIdle
    /\ AuthIdle
    /\ codecKind \in {"local", "ssh"}
    /\ \E x \in CodecFiles : dataFile = x.file /\ written = x.written
    /\ liveData = AppData(<<>>, <<>>, [ShowHierarchyLines |-> FALSE])
    /\ lastCall = "none"
    /\ loadErr = FALSE
    /\ codecOps = 0

\* data, err := cm.Load(); the caller keeps its data when Load fails
CodecLoad ==
    /\ LET r == CodecLoadResult(codecKind, dataFile, 1)
       IN  /\ loadErr' = r.err
           /\ liveData' = IF r.err THEN liveData ELSE r.data
    /\ lastCall' = "Load"
    /\ UNCHANGED <<codecKind, dataFile, written, codecOps>>
    /\ UNCHANGED sessionVars
    /\ UNCHANGED authVars

\* cm.Save(data)
CodecSave ==
    /\ dataFile' = CodecSaveBytes(codecKind, liveData)
    /\ written' = [valid |-> TRUE, view |-> DocView(liveData)]
    /\ lastCall' = "Save"
    /\ UNCHANGED <<codecKind, liveData, loadErr, codecOps>>
    /\ UNCHANGED sessionVars
    /\ UNCHANGED authVars

\* the caller adds a bullet with the given field values, as a new root or as
\* the last child of the bullet created last
CodecNewBullet ==
    /\ codecOps < MaxCodecOps
    /\ \E k \in 1..Len(NodeFlavours), parent \in {NULL, Len(liveData.heap)} :
          LET h == Append(liveData.heap,
                          BulletLiteral(NextUuid(liveData.heap, 1), NodeFlavours[k]))
              b == Len(h)
          IN  liveData' = IF parent = NULL
                          THEN [liveData EXCEPT !.heap = h, !.RootBullets = Append(@, b)]
                          ELSE [liveData EXCEPT !.heap = AddChild(h, parent, b)]
    /\ codecOps' = codecOps + 1
    /\ lastCall' = "none"
    /\ UNCHANGED <<codecKind, dataFile, written, loadErr>>
    /\ UNCHANGED sessionVars
    /\ UNCHANGED authVars

\* the caller sets the fields of the first root bullet and flips the setting
CodecSetFields ==
    /\ codecOps < MaxCodecOps
    /\ liveData.RootBullets # <<>>
    /\ \E k \in 1..Len(NodeFlavours) :
          LET b == liveData.RootBullets[1]
          IN  liveData' =
                 [liveData EXCEPT
                     !.heap[b] = [BulletLiteral(@.ID, NodeFlavours[k]) EXCEPT
                                     !.Children = liveData.heap[b].Children,
                                     !.Parent = liveData.heap[b].Parent],
                     !.Settings.ShowHierarchyLines = ~@]
    /\ codecOps' = codecOps + 1
    /\ lastCall' = "none"
    /\ UNCHANGED <<codecKind, dataFile, written, loadErr>>
    /\ UNCHANGED sessionVars
    /\ UNCHANGED authVars

CodecNext == CodecLoad \/ CodecSave \/ CodecNewBullet \/ CodecSetFields

SpecCodec == CodecInit /\ [][CodecNext]_vars

\* the two ConfigManagers: of ocli-ssh and of the ocli program
ConfigManagerInit ==
    /\ SessionIdle
    /\ AuthIdle
    /\ codecKind \in {"local", "ocli"}
    /\ \E x \in CodecFiles : dataFile = x.file /\ written = x.written
    /\ liveData = AppData(<<>>, <<>>, [ShowHierarchyLines |-> FALSE])
    /\ lastCall = "none"
    /\ loadErr = FALSE
    /\ codecOps = 0

SpecConfigManager == ConfigManagerInit /\ [][CodecNext]_vars

\* C2: whenever the durable record exists and parses, Load returns without
\* error exactly the document the record was written from (the nodes in stored
\* order with their fields, and the stored Settings), never the tutorial in
\* its place; so a Save followed by a Load returns the saved data.
C2_LoadReturnsStored ==
    (lastCall = "Load" /\ dataFile.kind = "json") =>
        /\ ~loadErr
        /\ written.valid
        /\ DocView(liveData) = written.view

\* a Load of a record that a Save wrote (it holds more nodes than any record
\* found at the start): the first root is a red task with the escaped content
\* and a child, the setting is off
C2_Witness ==
    /\ lastCall = "Load"
    /\ dataFile.kind = "json"
    /\ Len(liveData.heap) > MaxCodecNodes
    /\ ~liveData.Settings.ShowHierarchyLines
    /\ Len(liveData.RootBullets) >= 1
    /\ LET r == liveData.heap[liveData.RootBullets[1]]
       IN  /\ r.Color = ColorRed /\ r.IsTask /\ r.Content = "a<\"\\&>"
           /\ Len(r.Children) >= 1

\* C5: for every Document, decoding the record its encoding produces yields a
\* Document equal to it in root order, child order, every node's ID, content,
\* collapsed flag, color, task flag and completed flag, and in Settings; this
\* holds for the local codec and for the SSH codec.
C5_RoundTrip ==
    \A kind \in {"local", "ssh"} :
       LET r == CodecLoadResult(kind, CodecSaveBytes(kind, liveData), 1)
       IN  ~r.err /\ DocView(r.data) = DocView(liveData)

\* a Document just saved that has a collapsed, completed red task with escaped
\* content, a child, and a node in editing state
C5_Witness ==
    /\ lastCall = "Save"
    /\ dataFile = CodecSaveBytes(codecKind, liveData)
    /\ \E b \in 1..Len(liveData.heap) :
          /\ liveData.heap[b].Completed /\ liveData.heap[b].Collapsed
          /\ liveData.heap[b].Color = ColorRed
          /\ liveData.heap[b].Content = "a<\"\\&>"
          /\ Len(liveData.heap[b].Children) >= 1
    /\ \E b \in 1..Len(liveData.heap) :
          liveData.heap[b].IsEditing /\ liveData.heap[b].Parent # NULL

\* ------------------------------------------- the session and its record
\* the Document and Settings of a session, as Save takes them
SessionData(m) == AppData(m.heap, m.rootBullets, m.settings)

\* the bootstrap Document of the session's codec
BootstrapData ==
    IF mode = "ssh" THEN getDefaultSSHData(username, 1) ELSE createDefaultData(1)

\* the durable record the session was loaded from
SessionFile == IF mode = "ssh" THEN userFile ELSE localFile

\* C3: a session constructed over a record that exists but is empty or
\* malformed is not given the bootstrap Document in its place, in the local
\* model and in the SSH model.
C3_BootstrapOnlyOnAbsence ==
    (ops = 0 /\ origFile.kind \in {"empty", "garbage"}) =>
        DocView(SessionData(session)) # DocView(BootstrapData)

\* C4: when the record the session was constructed over does not parse, the
\* record holds its original bytes in every later state of the session.
C4_MalformedBytesUntouched ==
    origFile.kind \in {"empty", "garbage"} => SessionFile = origFile

\* C6: in an SSH session, every key message that changes a persisted field of
\* the Document or the Settings leaves the user's record equal to the encoding
\* of the session's Document and Settings.
C6_WriteThrough ==
    [][(/\ mode = "ssh"
        /\ status' = "active"
        /\ DocView(SessionData(session')) # DocView(SessionData(session)))
       => userFile' = saveSSHData(session')]_vars

\* ---------------------------------------------------------- SSH public keys
\* A public key is its algorithm and its key material.  Marshal is the SSH wire
\* format: the algorithm name, then the material.
PublicKeys ==
    {[alg |-> "ssh-ed25519", data |-> "A"],
     [alg |-> "ssh-ed25519", data |-> "B"],
     [alg |-> "ssh-rsa", data |-> "A"]}

KeyAlgorithms == {"ssh-ed25519", "ssh-rsa"}

Marshal(key) == <<key.alg, key.data>>

Type(key) == key.alg

\* gossh.ParsePublicKey: [err, key]
ParsePublicKey(blob) ==
    IF Len(blob) = 2 /\ blob[1] \in KeyAlgorithms
    THEN [err |-> FALSE, key |-> [alg |-> blob[1], data |-> blob[2]]]
    ELSE [err |-> TRUE]

convertToGosshKey(key) ==
    LET parsed == ParsePublicKey(Marshal(key))
    IN  IF parsed.err THEN [err |-> TRUE]
        ELSE IF Type(parsed.key) # Type(key) THEN [err |-> TRUE]
        ELSE parsed

\* subtle.ConstantTimeCompare(x, y) == 1
ConstantTimeCompare(x, y) ==
    /\ Len(x) = Len(y)
    /\ \A i \in 1..Len(x) : x[i] = y[i]

\* A line of an authorized_keys file is its blank-separated fields; a field is a
\* word or the base64 text of a byte string.
Word(text) == [b64 |-> FALSE, text |-> text]
Base64(blob) == [b64 |-> TRUE, blob |-> blob]

\* gossh.MarshalAuthorizedKey: "<type> <base64 of the wire format>\n"
MarshalAuthorizedKey(key) == <<Word(Type(key)), Base64(Marshal(key))>>

BlankLine == <<>>
CommentLine == <<Word("#"), Word("added"), Word("by"), Word("hand")>>
\* a line whose second field is not base64, and a line of one field
MalformedLine == <<Word("ssh-ed25519"), Word("!!!")>>
OneFieldLine == <<Word("garbage")>>
\* a line longer than bufio.MaxScanTokenSize
LongLine == <<Word("ssh-ed25519"), Word("AAAA... (more than 64 KiB)")>>

\* gossh.ParseAuthorizedKey on one line: the first field is skipped, the second
\* must be the base64 text of a public key; what follows is the comment
ParseAuthorizedKeyLine(line) ==
    IF Len(line) < 2 THEN [err |-> TRUE]
    ELSE IF ~line[2].b64 THEN [err |-> TRUE]
    ELSE ParsePublicKey(line[2].blob)

\* strings.TrimSpace(line) == "" || strings.HasPrefix(line, "#")
SkippedLine(line) == line = <<>> \/ (~line[1].b64 /\ line[1].text = "#")

\* gossh.ParseAuthorizedKey on the bytes of a file: the key of the first line
\* that holds one
RECURSIVE ParseAuthorizedKey(_)
ParseAuthorizedKey(lines) ==
    IF lines = <<>> THEN [err |-> TRUE]
    ELSE IF SkippedLine(Head(lines)) \/ ParseAuthorizedKeyLine(Head(lines)).err
         THEN ParseAuthorizedKey(Tail(lines))
         ELSE ParseAuthorizedKeyLine(Head(lines))

\* ------------------------------------------------------------- path names
\* the elements of a path, split at "/"
RECURSIVE PathElements(_)
PathElements(path) ==
    LET slashes == {k \in 1..Len(path) : SubSeq(path, k, k) = "/"}
    IN  IF slashes = {} THEN <<path>>
        ELSE <<SubSeq(path, 1, Min(slashes) - 1)>>
             \o PathElements(SubSeq(path, Min(slashes) + 1, Len(path)))

\* the elements filepath.Clean keeps of a relative path: "" and "." are
\* dropped, ".." takes back the element before it
RECURSIVE CleanElements(_, _)
CleanElements(elems, out) ==
    IF elems = <<>> THEN out
    ELSE CleanElements(Tail(elems),
             IF Head(elems) \in {"", "."} THEN out
             ELSE IF Head(elems) = ".." /\ out # <<>> /\ out[Len(out)] # ".."
                  THEN SubSeq(out, 1, Len(out) - 1)
                  ELSE Append(out, Head(elems)))

RECURSIVE JoinElements(_)
JoinElements(elems) ==
    IF elems = <<>> THEN "."
    ELSE IF Len(elems) = 1 THEN elems[1]
    ELSE elems[1] \o "/" \o JoinElements(Tail(elems))

\* filepath.Clean of a relative path
Clean(path) == JoinElements(CleanElements(PathElements(path), <<>>))

\* filepath.Join(dataDir, "users", username), which cleans the joined path:
\* the directory of a user name, as a path below <data-dir>/users
userDir(name) == Clean(name)

\* ------------------------------------------------------- the users directory
\* usersDir[d] is the directory <data-dir>/users/<d>: missing, or a directory
\* in which authorized_keys is missing or holds lines
NoDir == [exists |-> FALSE]
NoFile == [exists |-> FALSE]
KeysFile(lines) == [exists |-> TRUE, lines |-> lines]
UserDir(keysFile) == [exists |-> TRUE, authorized_keys |-> keysFile]

\* os.MkdirAll(userDir)
MkdirAll(fs, u) == IF fs[u].exists THEN fs ELSE [fs EXCEPT ![u] = UserDir(NoFile)]

\* a write of keyLine through a file opened with O_APPEND|O_CREATE
AppendLine(fs, u, keyLine) ==
    [fs EXCEPT ![u].authorized_keys =
        IF @.exists THEN KeysFile(Append(@.lines, keyLine)) ELSE KeysFile(<<keyLine>>)]

\* os.WriteFile(keysFile, keyData)
WriteFile(fs, u, keyData) == [fs EXCEPT ![u].authorized_keys = KeysFile(keyData)]

\* os.RemoveAll(userDir)
RemoveAll(fs, u) == [fs EXCEPT ![u] = NoDir]

\* ------------------------------------------------------------- AuthManager
\* am.authorizedKeys[username]: the value and whether the entry exists
MapGet(m, u) == IF u \in DOMAIN m THEN m[u] ELSE <<>>
MapPut(m, u, v) == [x \in DOMAIN m \cup {u} |-> IF x = u THEN v ELSE m[x]]
MapDelete(m, u) == [x \in DOMAIN m \ {u} |-> m[x]]

\* the keys of the lines the scanner loop of loadUserKeys appends
RECURSIVE ScannedKeys(_)
ScannedKeys(lines) ==
    IF lines = <<>> THEN <<>>
    ELSE IF SkippedLine(Head(lines)) \/ ParseAuthorizedKeyLine(Head(lines)).err
         THEN ScannedKeys(Tail(lines))
         ELSE <<ParseAuthorizedKeyLine(Head(lines)).key>> \o ScannedKeys(Tail(lines))

\* loadUserKeys: [err, keys]; keys is the map after the call
loadUserKeys(keys, fs, u) ==
    IF ~fs[u].exists \/ ~fs[u].authorized_keys.exists
    THEN [err |-> FALSE, keys |-> keys]
    ELSE IF \E i \in 1..Len(fs[u].authorized_keys.lines) :
               fs[u].authorized_keys.lines[i] = LongLine
         \* scanner.Err(): bufio.Scanner: token too long
         THEN [err |-> TRUE, keys |-> keys]
         ELSE [err |-> FALSE,
               keys |-> MapPut(keys, u, ScannedKeys(fs[u].authorized_keys.lines))]

\* NewAuthManager: the map after loading every directory under users/
RECURSIVE LoadAll(_, _, _)
LoadAll(keys, fs, users) ==
    IF users = {} THEN keys
    ELSE LET u == CHOOSE x \in users : TRUE
         IN  LoadAll(loadUserKeys(keys, fs, u).keys, fs, users \ {u})

NewAuthManager(fs) == LoadAll(EmptyMap, fs, {u \in DOMAIN fs : fs[u].exists})

\* a comparison loop that looks at the key type only
AuthenticateTypeOnly(keys, u, key) ==
    /\ u \in DOMAIN keys
    /\ ~convertToGosshKey(key).err
    /\ \E i \in 1..Len(keys[u]) : Type(keys[u][i]) = Type(convertToGosshKey(key).key)

Authenticate(keys, u, key) ==
    /\ u \in DOMAIN keys
    /\ ~convertToGosshKey(key).err
    /\ \E i \in 1..Len(keys[u]) :
          /\ Type(keys[u][i]) = Type(convertToGosshKey(key).key)
          /\ ConstantTimeCompare(Marshal(keys[u][i]), Marshal(convertToGosshKey(key).key))

\* AddUserKey: [err, keys, fs]; fail names the file-system call that fails
AddUserKey(keys, fs, u, key, fail) ==
    LET fs1 == MkdirAll(fs, userDir(u))
        gosshKey == convertToGosshKey(key)
        keys1 == MapPut(keys, u, Append(MapGet(keys, u), gosshKey.key))
    IN  IF fail = "mkdir" THEN [err |-> TRUE, keys |-> keys, fs |-> fs]
        ELSE IF gosshKey.err THEN [err |-> TRUE, keys |-> keys, fs |-> fs1]
        ELSE IF fail = "open" THEN [err |-> TRUE, keys |-> keys1, fs |-> fs1]
        ELSE [err |-> FALSE, keys |-> keys1,
              fs |-> AppendLine(fs1, userDir(u), MarshalAuthorizedKey(gosshKey.key))]

\* a registration check that takes a user without keys for a new user
AuthenticateOrRegisterIfNoKeys(keys, fs, u, key, auto, fail) ==
    IF Authenticate(keys, u, key) THEN [result |-> TRUE, keys |-> keys, fs |-> fs]
    ELSE IF auto /\ Len(MapGet(keys, u)) = 0
         THEN LET added == AddUserKey(keys, fs, u, key, fail)
              IN  [result |-> ~added.err, keys |-> added.keys, fs |-> added.fs]
         ELSE [result |-> FALSE, keys |-> keys, fs |-> fs]

\* AuthenticateOrRegister: [result, keys, fs]
AuthenticateOrRegister(keys, fs, u, key, auto, fail) ==
    IF Authenticate(keys, u, key) THEN [result |-> TRUE, keys |-> keys, fs |-> fs]
    ELSE IF auto /\ u \notin DOMAIN keys
         THEN LET added == AddUserKey(keys, fs, u, key, fail)
              IN  [result |-> ~added.err, keys |-> added.keys, fs |-> added.fs]
         ELSE [result |-> FALSE, keys |-> keys, fs |-> fs]

\* AddUserFromFile with the bytes keyData of the public key file: [err, keys, fs]
AddUserFromFile(keys, fs, u, keyData, fail) ==
    LET parsed == ParseAuthorizedKey(keyData)
        fs1 == MkdirAll(fs, userDir(u))
        keys1 == MapPut(keys, u, Append(MapGet(keys, u), parsed.key))
    IN  IF parsed.err THEN [err |-> TRUE, keys |-> keys, fs |-> fs]
        ELSE IF fail = "mkdir" THEN [err |-> TRUE, keys |-> keys, fs |-> fs]
        ELSE IF fail = "open" THEN [err |-> TRUE, keys |-> keys1, fs |-> fs1]
        ELSE [err |-> FALSE, keys |-> keys1, fs |-> WriteFile(fs1, userDir(u), keyData)]

\* AuthManager.RemoveUser
RemoveUser(keys, u) == MapDelete(keys, u)

\* ------------------------------------------------ the auth store, call by call
AuthUsers == {"alice", "bob"}

\* the authorized_keys files found when the server starts
StoredKeyFiles ==
    {<<>>,
     <<CommentLine>>,
     <<MarshalAuthorizedKey([alg |-> "ssh-ed25519", data |-> "A"])>>,
     <<CommentLine, BlankLine, MarshalAuthorizedKey([alg |-> "ssh-ed25519", data |-> "A"]),
       MalformedLine, OneFieldLine, MarshalAuthorizedKey([alg |-> "ssh-rsa", data |-> "A"])>>,
     <<MarshalAuthorizedKey([alg |-> "ssh-ed25519", data |-> "B"]), LongLine>>}

StoredUserDirs == {NoDir, UserDir(NoFile)} \cup {UserDir(KeysFile(f)) : f \in StoredKeyFiles}

\* the public key files handed to --add-user
PublicKeyFiles ==
    {<<MarshalAuthorizedKey([alg |-> "ssh-ed25519", data |-> "A"])>>,
     <<CommentLine, MarshalAuthorizedKey([alg |-> "ssh-ed25519", data |-> "B"]),
       MarshalAuthorizedKey([alg |-> "ssh-rsa", data |-> "A"])>>,
     <<MalformedLine>>}

FsFailures == {"none", "mkdir", "open"}

\* no connection is inside authHandler
ConnsIdle ==
    /\ conns = EmptyMap
    /\ mapWriter = 0

AuthInit ==
    /\ SessionIdle
    /\ CodecIdle
    /\ usersDir \in [AuthUsers -> StoredUserDirs]
    /\ authorizedKeys = NewAuthManager(usersDir)
    /\ autoRegister \in BOOLEAN
    /\ authLast = [call |-> "none"]
    /\ authOps = 0
    /\ ConnsIdle
    /\ serverStatus = "running"
    /\ sessions = EmptyMap
    /\ dataFiles = EmptyMap

AuthFrame ==
    /\ authOps < MaxAuthOps
    /\ authOps' = authOps + 1
    /\ UNCHANGED <<autoRegister, conns, mapWriter, serverStatus, sessions, dataFiles>>
    /\ UNCHANGED sessionVars
    /\ UNCHANGED codecVars

\* Server.authHandler for one connection, from start to end
AuthConnect ==
    /\ AuthFrame
    /\ \E u \in AuthUsers, key \in PublicKeys, fail \in FsFailures :
          LET r == AuthenticateOrRegister(authorizedKeys, usersDir, u, key, autoRegister, fail)
          IN  /\ authorizedKeys' = r.keys
              /\ usersDir' = r.fs
              /\ authLast' = [call |-> "AuthenticateOrRegister", username |-> u, key |-> key,
                              result |-> r.result, before |-> authorizedKeys,
                              fail |-> fail]

\* AuthManager.Authenticate
AuthCheck ==
    /\ AuthFrame
    /\ \E u \in AuthUsers, key \in PublicKeys :
          authLast' = [call |-> "Authenticate", username |-> u, key |-> key,
                       result |-> Authenticate(authorizedKeys, u, key),
                       before |-> authorizedKeys]
    /\ UNCHANGED <<authorizedKeys, usersDir>>

\* AuthManager.AddUserKey
AuthAddKey ==
    /\ AuthFrame
    /\ \E u \in AuthUsers, key \in PublicKeys, fail \in FsFailures :
          LET r == AddUserKey(authorizedKeys, usersDir, u, key, fail)
          IN  /\ authorizedKeys' = r.keys
              /\ usersDir' = r.fs
              /\ authLast' = [call |-> "AddUserKey", username |-> u, key |-> key,
                              result |-> ~r.err, before |-> authorizedKeys]

\* Server.AddUser: AuthManager.AddUserFromFile
AuthAddUser ==
    /\ AuthFrame
    /\ \E u \in AuthUsers, keyData \in PublicKeyFiles, fail \in FsFailures :
          LET r == AddUserFromFile(authorizedKeys, usersDir, u, keyData, fail)
          IN  /\ authorizedKeys' = r.keys
              /\ usersDir' = r.fs
              /\ authLast' = [call |-> "AddUserFromFile", username |-> u, key |-> keyData,
                              result |-> ~r.err, before |-> authorizedKeys]

\* Server.RemoveUser: AuthManager.RemoveUser, then os.RemoveAll of the directory
AuthRemoveUser ==
    /\ AuthFrame
    /\ \E u \in AuthUsers :
          /\ authorizedKeys' = RemoveUser(authorizedKeys, u)
          /\ usersDir' = RemoveAll(usersDir, userDir(u))
          /\ authLast' = [call |-> "RemoveUser", username |-> u, key |-> <<>>,
                          result |-> TRUE, before |-> authorizedKeys]

\* the server stops and starts again: NewServer builds a new AuthManager
AuthRestart ==
    /\ AuthFrame
    /\ authorizedKeys' = NewAuthManager(usersDir)
    /\ authLast' = [call |-> "NewAuthManager", username |-> "", key |-> <<>>,
                    result |-> TRUE, before |-> authorizedKeys]
    /\ UNCHANGED usersDir

AuthNext ==
    \/ AuthConnect \/ AuthCheck \/ AuthAddKey \/ AuthAddUser
    \/ AuthRemoveUser \/ AuthRestart

SpecAuth == AuthInit /\ [][AuthNext]_vars

\* whether keys holds, for u, a key with the algorithm and the bytes of key
Authorized(keys, u, key) ==
    /\ u \in DOMAIN keys
    /\ \E i \in 1..Len(keys[u]) :
          keys[u][i].alg = key.alg /\ Marshal(keys[u][i]) = Marshal(key)

\* C7: AuthenticateOrRegister returns true when the key is authorized and
\* changes nothing; otherwise it returns true only with auto-register on for a
\* user without entry, who then has exactly the presented key, and it does so
\* whenever storage works; a user with an entry, even one without keys, and
\* any user while auto-register is off, is rejected with the store unchanged.
C7_AuthenticateOrRegister ==
    authLast.call = "AuthenticateOrRegister" =>
        LET u == authLast.username
            key == authLast.key
            before == authLast.before
            registered == MapPut(before, u, <<key>>)
        IN  IF Authorized(before, u, key)
            THEN authLast.result /\ authorizedKeys = before
            ELSE /\ authLast.result =>
                       autoRegister /\ u \notin DOMAIN before /\ authorizedKeys = registered
                 /\ authorizedKeys # before =>
                       autoRegister /\ u \notin DOMAIN before /\ authorizedKeys = registered
                 /\ (autoRegister /\ u \notin DOMAIN before /\ authLast.fail = "none") =>
                       authLast.result
                 /\ (u \in DOMAIN before \/ ~autoRegister) =>
                       ~authLast.result /\ authorizedKeys = before

\* auto-register on: a user with an entry without keys has just been rejected,
\* after the other user was registered with the key presented
C7_Witness ==
    /\ authLast.call = "AuthenticateOrRegister"
    /\ autoRegister
    /\ ~authLast.result
    /\ authLast.username \in DOMAIN authLast.before
    /\ authLast.before[authLast.username] = <<>>
    /\ \E v \in AuthUsers \ {authLast.username} :
          /\ v \in DOMAIN authorizedKeys
          /\ authorizedKeys[v] = <<authLast.key>>
          /\ usersDir[v] = UserDir(KeysFile(<<MarshalAuthorizedKey(authLast.key)>>))

\* C8: Authenticate returns true exactly when the user has an entry holding a
\* key whose algorithm and encoded bytes equal those of the presented key; for
\* a user without entry it returns false.
C8_AuthenticateIff ==
    authLast.call = "Authenticate" =>
        (authLast.result <=> Authorized(authorizedKeys, authLast.username, authLast.key))

\* Authenticate has just accepted a key that is not the first of the user's
\* keys, the first being of the same algorithm
C8_Witness ==
    /\ authLast.call = "Authenticate"
    /\ authLast.result
    /\ Len(authorizedKeys[authLast.username]) >= 2
    /\ authorizedKeys[authLast.username][1] # authLast.key
    /\ authorizedKeys[authLast.username][1].alg = authLast.key.alg

\* the number of keys a load of the user's authorized_keys file yields
FileKeyCount(fs, u) ==
    IF fs[u].exists /\ fs[u].authorized_keys.exists
    THEN Len(ScannedKeys(fs[u].authorized_keys.lines)) ELSE 0

\* C9: an add (AddUserKey or AddUserFromFile) that repeats the add made just
\* before it, same user and same encoded key, leaves the number of the
\* user's keys unchanged in memory and in the authorized_keys file.
C9_KeyAddIdempotent ==
    [][(/\ authLast.call \in {"AddUserKey", "AddUserFromFile"}
        /\ authLast.result
        /\ authOps' = authOps + 1
        /\ authLast'.call = authLast.call
        /\ authLast'.username = authLast.username
        /\ authLast'.key = authLast.key
        /\ authLast'.result)
       => /\ Len(MapGet(authorizedKeys', authLast.username))
               = Len(MapGet(authorizedKeys, authLast.username))
          /\ FileKeyCount(usersDir', authLast.username)
               = FileKeyCount(usersDir, authLast.username)]_vars

\* --------------------------------------- connections that authenticate at once
\* wish runs authHandler on the goroutine of each connection; the AuthManager
\* has no lock, so the steps of AuthenticateOrRegister and AddUserKey of
\* different connections interleave.  A connection is its position and locals.
NoKey == [alg |-> "", data |-> ""]

IdleConn ==
    [pc |-> "idle", username |-> "", key |-> NoKey, unregistered |-> FALSE,
     userKeys |-> <<>>, result |-> FALSE]

\* the users directories found when the server starts
ConcUserDirs ==
    {NoDir, UserDir(KeysFile(<<MarshalAuthorizedKey([alg |-> "ssh-ed25519", data |-> "A"])>>))}

AuthConcInit ==
    /\ SessionIdle
    /\ CodecIdle
    /\ usersDir \in [AuthUsers -> ConcUserDirs]
    /\ authorizedKeys = NewAuthManager(usersDir)
    /\ autoRegister \in BOOLEAN
    /\ authLast = [call |-> "none"]
    /\ authOps = 0
    /\ conns = [c \in 1..MaxConns |-> IdleConn]
    /\ mapWriter = 0
    /\ serverStatus = "running"
    /\ sessions = EmptyMap
    /\ dataFiles = EmptyMap

ConnFrame ==
    /\ UNCHANGED <<autoRegister, authLast, authOps, sessions, dataFiles>>
    /\ UNCHANGED sessionVars
    /\ UNCHANGED codecVars

\* connection c ends authHandler with the given result
Done(c, result) == [conns EXCEPT ![c].pc = "done", ![c].result = result]

\* authHandler: the user name and the key of a new connection
ConnAccept(c) ==
    /\ serverStatus = "running"
    /\ conns[c].pc = "idle"
    /\ \E u \in AuthUsers, key \in PublicKeys :
          conns' = [conns EXCEPT ![c] =
                       [IdleConn EXCEPT !.pc = "Authenticate", !.username = u, !.key = key,
                                        !.unregistered = u \notin DOMAIN authorizedKeys]]
    /\ UNCHANGED <<authorizedKeys, usersDir, mapWriter, serverStatus>>
    /\ ConnFrame

\* "if am.Authenticate(username, key)", then "if autoRegister"
ConnAuthenticate(c) ==
    /\ serverStatus = "running"
    /\ conns[c].pc = "Authenticate"
    /\ conns' = IF Authenticate(authorizedKeys, conns[c].username, conns[c].key)
                THEN Done(c, TRUE)
                ELSE IF autoRegister THEN [conns EXCEPT ![c].pc = "CheckExists"]
                ELSE Done(c, FALSE)
    /\ UNCHANGED <<authorizedKeys, usersDir, mapWriter, serverStatus>>
    /\ ConnFrame

\* "_, exists := am.authorizedKeys[username]; if !exists"
ConnCheckExists(c) ==
    /\ serverStatus = "running"
    /\ conns[c].pc = "CheckExists"
    /\ conns' = IF conns[c].username \in DOMAIN authorizedKeys
                THEN Done(c, FALSE)
                ELSE [conns EXCEPT ![c].pc = "MkdirAll"]
    /\ UNCHANGED <<authorizedKeys, usersDir, mapWriter, serverStatus>>
    /\ ConnFrame

\* AddUserKey: os.MkdirAll(userDir) and convertToGosshKey
ConnMkdirAll(c) ==
    /\ serverStatus = "running"
    /\ conns[c].pc = "MkdirAll"
    /\ usersDir' = MkdirAll(usersDir, userDir(conns[c].username))
    /\ conns' = IF convertToGosshKey(conns[c].key).err
                THEN Done(c, FALSE)
                ELSE [conns EXCEPT ![c].pc = "ReadKeys"]
    /\ UNCHANGED <<authorizedKeys, mapWriter, serverStatus>>
    /\ ConnFrame

\* AddUserKey: the read of am.authorizedKeys[username] that append takes
ConnReadKeys(c) ==
    /\ serverStatus = "running"
    /\ conns[c].pc = "ReadKeys"
    /\ conns' = [conns EXCEPT ![c].pc = "WriteKeys",
                              ![c].userKeys = MapGet(authorizedKeys, conns[c].username)]
    /\ UNCHANGED <<authorizedKeys, usersDir, mapWriter, serverStatus>>
    /\ ConnFrame

\* AddUserKey: the assignment to am.authorizedKeys[username] begins
ConnWriteKeys(c) ==
    /\ serverStatus = "running"
    /\ conns[c].pc = "WriteKeys"
    /\ authorizedKeys' = MapPut(authorizedKeys, conns[c].username,
                                Append(conns[c].userKeys, convertToGosshKey(conns[c].key).key))
    /\ mapWriter' = c
    /\ conns' = [conns EXCEPT ![c].pc = "WriteDone"]
    /\ UNCHANGED <<usersDir, serverStatus>>
    /\ ConnFrame

\* AddUserKey: the assignment to am.authorizedKeys[username] ends
ConnWriteDone(c) ==
    /\ serverStatus = "running"
    /\ conns[c].pc = "WriteDone"
    /\ mapWriter' = IF mapWriter = c THEN 0 ELSE mapWriter
    /\ conns' = [conns EXCEPT ![c].pc = "AppendFile"]
    /\ UNCHANGED <<authorizedKeys, usersDir, serverStatus>>
    /\ ConnFrame

\* AddUserKey: the key line is appended to authorized_keys; authHandler
\* returns true
ConnAppendFile(c) ==
    /\ serverStatus = "running"
    /\ conns[c].pc = "AppendFile"
    /\ usersDir' = AppendLine(usersDir, userDir(conns[c].username),
                              MarshalAuthorizedKey(convertToGosshKey(conns[c].key).key))
    /\ conns' = Done(c, TRUE)
    /\ UNCHANGED <<authorizedKeys, mapWriter, serverStatus>>
    /\ ConnFrame

\* a connection is about to read or write the map while another connection is
\* writing it: the Go runtime may stop the process with "fatal error:
\* concurrent map writes" or "concurrent map read and map write"
ConnFatal(c) ==
    /\ serverStatus = "running"
    /\ conns[c].pc \in {"Authenticate", "CheckExists", "ReadKeys", "WriteKeys"}
    /\ mapWriter \notin {0, c}
    /\ serverStatus' = "fatal"
    /\ UNCHANGED <<authorizedKeys, usersDir, conns, mapWriter>>
    /\ ConnFrame

AuthConcNext ==
    \E c \in 1..MaxConns :
        \/ ConnAccept(c) \/ ConnAuthenticate(c) \/ ConnCheckExists(c) \/ ConnMkdirAll(c)
        \/ ConnReadKeys(c) \/ ConnWriteKeys(c) \/ ConnWriteDone(c) \/ ConnAppendFile(c)
        \/ ConnFatal(c)

SpecAuthConc == AuthConcInit /\ [][AuthConcNext]_vars

\* C10: when two connections that both found the user unregistered have
\* presented different keys for that user under auto-register and both have
\* left authHandler, the user has exactly one key, the key of one of them, in
\* memory and in the authorized_keys file, and exactly one of the two was
\* accepted.
C10_RegistrationAtomic ==
    \A c1, c2 \in 1..MaxConns :
       (/\ c1 # c2
        /\ autoRegister
        /\ conns[c1].pc = "done" /\ conns[c2].pc = "done"
        /\ conns[c1].unregistered /\ conns[c2].unregistered
        /\ conns[c1].username = conns[c2].username
        /\ conns[c1].key # conns[c2].key)
       => /\ Len(MapGet(authorizedKeys, conns[c1].username)) = 1
          /\ authorizedKeys[conns[c1].username][1] \in {conns[c1].key, conns[c2].key}
          /\ FileKeyCount(usersDir, conns[c1].username) = 1
          /\ conns[c1].result # conns[c2].result

\* ---------------------------------------------------- rejected connections
\* C11: a connection that authHandler rejects changes nothing: the key sets
\* of the AuthManager and the users directory (the namespaces and the
\* authorized_keys files) are after the attempt what they were before it, so
\* the same attempt made again is rejected again.
C11_RejectedChangesNothing ==
    [][(/\ authLast'.call = "AuthenticateOrRegister"
        /\ authOps' = authOps + 1
        /\ ~authLast'.result)
       => /\ authorizedKeys' = authorizedKeys
          /\ usersDir' = usersDir
          /\ ~Authenticate(authorizedKeys', authLast'.username, authLast'.key)]_vars

\* ------------------------------------------ what an SSH session writes where
\* C13: a session bound to an identity writes its Document and Settings only
\* inside the namespace of the identity: no key pressed in an SSH session
\* changes the data file of the process, which every session shares.
C13_WritesOnlyOwnNamespace ==
    [][mode = "ssh" => localFile' = localFile]_vars

\* C15: when the provisioning of a new identity is complete (NewSSHModel has
\* returned and no key was pressed yet), the data file of the identity exists
\* and holds the bootstrap Document made for its name.
C15_BootstrapPersisted ==
    (mode = "ssh" /\ origFile = FileAbsent /\ ops = 0 /\ status = "active")
        => /\ userFile # FileAbsent
           /\ userFile = saveSSHData(session)

\* ------------------------------------------------ the server and its sessions
\* wish calls authHandler and then teaHandler for each connection, and
\* bubbletea hands the key messages of the connection to its SSHModel.  Every
\* SSHModel is built over the ConfigManager of the process (localFile) and
\* over data.json in the directory of its user name.
ServerUsernames == {"alice", "bob", "alice/."}

\* the directories below <data-dir>/users
ServerDirs == {userDir(u) : u \in ServerUsernames}

\* the keys the connections present
ServerPublicKeys == {[alg |-> "ssh-ed25519", data |-> "A"], [alg |-> "ssh-ed25519", data |-> "B"]}

\* the key messages the sessions receive
ServerKeyMsgs == {"c", " ", "d", "q"}

NoSession == [pc |-> "none", username |-> "", m |-> <<>>, latest |-> FALSE]

\* the user directories found when the server starts and their data files
ServerStoredDirs ==
    {[dir |-> NoDir, data |-> FileAbsent],
     [dir |-> UserDir(KeysFile(<<MarshalAuthorizedKey([alg |-> "ssh-ed25519", data |-> "A"])>>)),
      data |-> FileAbsent],
     [dir |-> UserDir(KeysFile(<<MarshalAuthorizedKey([alg |-> "ssh-ed25519", data |-> "A"])>>)),
      data |-> SSHSave(AppData(<<NewBullet(1, "n")>>, <<1>>, [ShowHierarchyLines |-> TRUE]))]}

ServerInit ==
    /\ session = NewModel(FileAbsent, 1)
    /\ mode = "ssh"
    /\ username = "alice"
    /\ userFile = FileAbsent
    /\ localFile = FileAbsent
    /\ origFile = FileAbsent
    /\ ops = 0
    /\ status = "idle"
    /\ CodecIdle
    /\ \E stored \in [ServerDirs -> ServerStoredDirs] :
          /\ usersDir = [d \in ServerDirs |-> stored[d].dir]
          /\ dataFiles = [d \in ServerDirs |-> stored[d].data]
    /\ authorizedKeys = NewAuthManager(usersDir)
    /\ autoRegister \in BOOLEAN
    /\ authLast = [call |-> "none"]
    /\ authOps = 0
    /\ ConnsIdle
    /\ serverStatus = "running"
    /\ sessions = [c \in 1..MaxSessions |-> NoSession]

ServerFrame ==
    /\ authOps < MaxServerOps
    /\ authOps' = authOps + 1
    /\ UNCHANGED <<autoRegister, conns, mapWriter, serverStatus>>
    /\ UNCHANGED <<session, mode, username, userFile, origFile, ops, status>>
    /\ UNCHANGED codecVars

\* Server.authHandler for connection c
ServerAuth(c) ==
    /\ ServerFrame
    /\ sessions[c].pc = "none"
    /\ \E u \in ServerUsernames, key \in ServerPublicKeys :
          \E r \in {AuthenticateOrRegister(authorizedKeys, usersDir, u, key, autoRegister, "none")} :
              /\ authorizedKeys' = r.keys
              /\ usersDir' = r.fs
              /\ sessions' = [sessions EXCEPT ![c].pc = IF r.result THEN "authenticated"
                                                        ELSE "rejected",
                                              ![c].username = u]
              /\ authLast' = [call |-> "authHandler", username |-> u, result |-> r.result]
    /\ UNCHANGED <<dataFiles, localFile>>

\* Server.teaHandler for connection c: NewSSHModel(username, s.dataDir)
ServerTea(c) ==
    /\ ServerFrame
    /\ sessions[c].pc = "authenticated"
    /\ usersDir' = MkdirAll(usersDir, userDir(sessions[c].username))
    /\ sessions' = [sessions EXCEPT
                       ![c].pc = "active",
                       ![c].m = NewSSHModel(sessions[c].username,
                                            dataFiles[userDir(sessions[c].username)],
                                            localFile, 1)]
    /\ authLast' = [call |-> "teaHandler", username |-> sessions[c].username, result |-> TRUE]
    /\ UNCHANGED <<authorizedKeys, dataFiles, localFile>>

\* SSHModel.Update of connection c for one key message; os.WriteFile of
\* SSHConfigManager.Save fails when the directory is gone
ServerUpdate(c) ==
    /\ ServerFrame
    /\ sessions[c].pc = "active"
    /\ \E key \in ServerKeyMsgs, d \in {userDir(sessions[c].username)} :
          \E p \in {AfterKey(Program(sessions[c].m, localFile, dataFiles[d], "active"), key)} :
             \E saved \in {p.status # "panicked" /\ key \in SSHSaveKeys /\ usersDir[d].exists} :
                /\ localFile' = p.localFile
                /\ dataFiles' = IF saved THEN [dataFiles EXCEPT ![d] = p.userFile]
                                ELSE dataFiles
                /\ sessions' = [x \in DOMAIN sessions |->
                                   IF x = c
                                   THEN [sessions[c] EXCEPT !.pc = p.status, !.m = p.m,
                                                            !.latest = saved \/ @]
                                   ELSE IF saved /\ userDir(sessions[x].username) = d
                                   THEN [sessions[x] EXCEPT !.latest = FALSE]
                                   ELSE sessions[x]]
    /\ authLast' = [call |-> "Update", username |-> sessions[c].username, result |-> TRUE]
    /\ UNCHANGED <<authorizedKeys, usersDir>>

\* Server.RemoveUser of a Server whose authManager field is am: the map
\* of the AuthManager, the user directories and their data files afterwards.
\* delete(am.authorizedKeys, username) on a nil *AuthManager panics.
ServerRemoveUser(am, keys, fs, files, u) ==
    IF am = NULL
    THEN [panicked |-> TRUE, keys |-> keys, fs |-> fs, files |-> files]
    ELSE [panicked |-> FALSE,
          keys |-> RemoveUser(keys, u),
          fs |-> RemoveAll(fs, userDir(u)),
          files |-> [files EXCEPT ![userDir(u)] = FileAbsent]]

\* handleDelUser: srv := &Server{dataDir: dataDir}, then srv.RemoveUser(username);
\* the process of the command has no AuthManager and no map
handleDelUser(fs, files, u) == ServerRemoveUser(NULL, EmptyMap, fs, files, u)

\* Server.RemoveUser called on the running server (NewServer set authManager)
RemoveUserCall ==
    /\ ServerFrame
    /\ \E u \in ServerUsernames :
          \E r \in {ServerRemoveUser(1, authorizedKeys, usersDir, dataFiles, u)} :
              /\ authorizedKeys' = r.keys
              /\ usersDir' = r.fs
              /\ dataFiles' = r.files
              /\ sessions' = [x \in DOMAIN sessions |->
                                 IF userDir(sessions[x].username) = userDir(u)
                                 THEN [sessions[x] EXCEPT !.latest = FALSE]
                                 ELSE sessions[x]]
              /\ authLast' = [call |-> "RemoveUser", username |-> u, result |-> ~r.panicked]
    /\ UNCHANGED localFile

\* ocli-ssh --del-user <username>, run while the server runs
DelUserCommand ==
    /\ ServerFrame
    /\ \E u \in ServerUsernames :
          \E r \in {handleDelUser(usersDir, dataFiles, u)} :
              /\ usersDir' = r.fs
              /\ dataFiles' = r.files
              /\ authLast' = [call |-> "handleDelUser", username |-> u, result |-> ~r.panicked]
    /\ UNCHANGED <<authorizedKeys, sessions, localFile>>

ServerNext ==
    \/ \E c \in 1..MaxSessions : ServerAuth(c) \/ ServerTea(c) \/ ServerUpdate(c)
    \/ RemoveUserCall
    \/ DelUserCommand

SpecServer == ServerInit /\ [][ServerNext]_vars

\* the Document and Settings a session of user name b is given when it is
\* provisioned over the files
Provisioned(b, files, lf) == DocView(SessionData(NewSSHModel(b, files[userDir(b)], lf, 1)))

\* C12: whatever is done on behalf of a user name a (authentication,
\* provisioning, key messages of its sessions, its removal) leaves to every
\* other user name b its data file, the models of its sessions and the
\* Document a new session of b is provisioned with.
C12_Isolation ==
    [][\A b \in ServerUsernames :
          (authOps' = authOps + 1 /\ authLast'.username # b)
          => /\ dataFiles'[userDir(b)] = dataFiles[userDir(b)]
             /\ \A c \in DOMAIN sessions :
                   sessions[c].username = b => sessions'[c].m = sessions[c].m
             /\ Provisioned(b, dataFiles', localFile') = Provisioned(b, dataFiles, localFile)]_vars

\* C14: a removal of user name u, by Server.RemoveUser or by the --del-user
\* command, ends without failure, and after it no key authenticates as u and
\* the directory of u with its data file is gone.
C14_RemoveUserRemovesAll ==
    authLast.call \in {"RemoveUser", "handleDelUser"}
    => /\ authLast.result
       /\ \A key \in ServerPublicKeys : ~Authenticate(authorizedKeys, authLast.username, key)
       /\ ~usersDir[userDir(authLast.username)].exists
       /\ dataFiles[userDir(authLast.username)] = FileAbsent

\* C17: the data file of a directory holds the encoding of the Document and
\* Settings of the session that saved to it last.
C17_LastWriterWins ==
    \A c \in DOMAIN sessions :
        sessions[c].latest
        => dataFiles[userDir(sessions[c].username)] = saveSSHData(sessions[c].m)

\* C16: a Load of a ConfigManager that finds no data file returns without
\* error a Document with at least one root bullet, the first of which has the
\* content "Welcome to OCLI!".
C16_LoadAbsentGivesTutorial ==
    (lastCall = "Load" /\ dataFile = FileAbsent)
    => /\ ~loadErr
       /\ Len(liveData.RootBullets) >= 1
       /\ liveData.heap[liveData.RootBullets[1]].Content = "Welcome to OCLI!"

\* ------------------------------------------------ what the operations change
\* the list of the Document that holds node c: the root list or the Children
\* list of its holder; empty when the Document does not hold c
ListOf(m, c) ==
    IF \E i \in 1..Len(m.rootBullets) : m.rootBullets[i] = c THEN m.rootBullets
    ELSE LET holders == {n \in DocNodes(m) :
                            \E i \in 1..Len(m.heap[n].Children) : m.heap[n].Children[i] = c}
         IN  IF holders = {} THEN <<>> ELSE m.heap[CHOOSE n \in holders : TRUE].Children

\* the position of c in list, 0 if it is not there
PositionIn(list, c) ==
    IF \E i \in 1..Len(list) : list[i] = c
    THEN Min({i \in 1..Len(list) : list[i] = c}) ELSE 0

\* node n with everything below it
SubtreeView(m, n) == NodeViews(m.heap, <<n>>, Len(m.heap) + 1)

\* m2 is m after the move the specification describes: nothing changes without
\* a selected node or a target; else the selected node, with its subtree, is
\* in the list of the target right before it (up) or right after it (down)
MovedAsSibling(m, m2, up) ==
    LET n == getSelectedBullet(m)
        Placed(list) ==
            /\ PositionIn(list, n) # 0
            /\ PositionIn(list, n) = PositionIn(list, MoveTarget(m, up)) + (IF up THEN -1 ELSE 1)
    IN  IF n = NULL \/ MoveTarget(m, up) = NULL THEN m2 = m
        ELSE /\ ~m2.panicked
             /\ Placed(ListOf(m2, MoveTarget(m, up)))
             /\ SubtreeView(m2, n) = SubtreeView(m, n)
             /\ DocNodes(m2) = DocNodes(m)

\* C18: a moveUp or moveDown of the selected node leaves everything as it was
\* when the visible list holds, in the direction of the move, no node at the
\* depth of the selected node (relative to the zoom root) and none one level
\* up; else the selected node with its subtree ends as the sibling right
\* before (moveUp) or right after (moveDown) the nearest such node.
C18_MoveNextToTarget ==
    [][/\ (ops' = ops + 1 /\ status = "active" /\ session' = moveBulletUp(session))
          => MovedAsSibling(session, session', TRUE)
       /\ (ops' = ops + 1 /\ status = "active" /\ session' = moveBulletDown(session))
          => MovedAsSibling(session, session', FALSE)]_vars

\* m2 holds the Document of m without node n and the nodes below it, every
\* other node with its fields and its children in their order
RemovedSubtree(m, m2, n) ==
    LET Keep(x) == x # n
    IN  /\ DocNodes(m2) = DocNodes(m) \ ReachFrom(m.heap, {n}, {})
        /\ m2.rootBullets = SelectSeq(m.rootBullets, Keep)
        /\ \A c \in DocNodes(m2) :
              /\ m2.heap[c].Children = SelectSeq(m.heap[c].Children, Keep)
              /\ [m2.heap[c] EXCEPT !.Children = <<>>] = [m.heap[c] EXCEPT !.Children = <<>>]

\* C19: a delete removes the selected node with its subtree from the Document
\* and nothing else; afterwards the node shown right before the deleted one is
\* selected, and nothing is selected when no node is shown any more.
C19_DeleteSelectsPrevious ==
    [][(/\ ops' = ops + 1
        /\ status = "active"
        /\ getSelectedBullet(session) # NULL
        /\ session' = deleteBullet(session))
       => /\ RemovedSubtree(session, session', getSelectedBullet(session))
          /\ session'.allBullets = <<>> => getSelectedBullet(session') = NULL
          /\ (session'.allBullets # <<>> /\ session.selectedIndex > 0)
             => getSelectedBullet(session') = session.allBullets[session.selectedIndex]]_vars

\* m2 is m after the indent the specification describes for node n: with a
\* sibling right before it, n with its subtree is the last child of that
\* sibling, which is expanded; with none, the Document is as it was
IndentedUnderPrevious(m, m2, n) ==
    LET Under(prev) ==
            /\ m2.heap[prev].Children = Append(m.heap[prev].Children, n)
            /\ m2.heap[n].Parent = prev
            /\ ~m2.heap[prev].Collapsed
            /\ SubtreeView(m2, n) = SubtreeView(m, n)
            /\ DocNodes(m2) = DocNodes(m)
            /\ PositionIn(ListOf(m, n), n) = PositionIn(ListOf(m2, prev), prev) + 1
        After(list) ==
            IF PositionIn(list, n) > 1 THEN Under(list[PositionIn(list, n) - 1])
            ELSE DocView(SessionData(m2)) = DocView(SessionData(m))
    IN  ~m2.panicked /\ After(ListOf(m, n))

\* C20: an indent makes the selected node, with its subtree, the last child of
\* the sibling right before it and expands that sibling; on the first child
\* of a node and on the first root it changes nothing and fails in no way.
C20_IndentUnderPreviousSibling ==
    [][(/\ ops' = ops + 1
        /\ status = "active"
        /\ getSelectedBullet(session) # NULL
        /\ session' = indentBullet(session))
       => IndentedUnderPrevious(session, session', getSelectedBullet(session))]_vars

\* m2 is m after the outdent the specification describes for node n: a node
\* with no parent stays where it is; else n, with its subtree, has left the
\* children of its parent and stands right after that parent in the list that
\* holds the parent
OutdentedAfterParent(m, m2, n) ==
    LET parent == m.heap[n].Parent
        Keep(x) == x # n
        After(list) ==
            /\ PositionIn(list, parent) # 0
            /\ PositionIn(list, n) = PositionIn(list, parent) + 1
    IN  /\ ~m2.panicked
        /\ IF parent = NULL THEN DocView(SessionData(m2)) = DocView(SessionData(m))
           ELSE /\ After(ListOf(m2, parent))
                /\ m2.heap[parent].Children = SelectSeq(m.heap[parent].Children, Keep)
                /\ m2.heap[n].Parent = m.heap[parent].Parent
                /\ SubtreeView(m2, n) = SubtreeView(m, n)
                /\ DocNodes(m2) = DocNodes(m)

\* C21: an outdent takes the selected node, with its subtree, out of the
\* children of its parent and puts it right after that parent among the
\* children of the grandparent, or in the root list when the parent is a
\* root; on a node without parent it changes nothing.
C21_OutdentAfterParent ==
    [][(/\ ops' = ops + 1
        /\ status = "active"
        /\ getSelectedBullet(session) # NULL
        /\ session' = outdentBullet(session))
       => OutdentedAfterParent(session, session', getSelectedBullet(session))]_vars

\* the siblings of node x as its back-reference names them: the Children of its
\* parent, or the root list
SiblingsOf(m, x) ==
    IF m.heap[x].Parent = NULL THEN m.rootBullets ELSE m.heap[m.heap[x].Parent].Children

\* m2 is m after an insertion: one node more, with the given text and no
\* children, placed last among the children of the selected zoom root when
\* underZoom, else right after the anchor among the anchor's siblings, or last
\* in the root list without an anchor; apart from the list that received it no
\* node and no list has changed
Inserted(m, m2, text, underZoom) ==
    LET n == getSelectedBullet(m)
        new == Len(m.heap) + 1
        Old(x) == x # new
        holder == IF underZoom THEN m.zoomedBullet
                  ELSE IF n = NULL THEN NULL ELSE m.heap[n].Parent
        Rest(h, x) == [h[x] EXCEPT !.Children = <<>>]
    IN  /\ ~m2.panicked
        /\ Len(m2.heap) = Len(m.heap) + 1
        /\ m2.heap[new].Content = text
        /\ m2.heap[new].Children = <<>>
        /\ m2.heap[new].Parent = holder
        /\ IF underZoom THEN m2.heap[holder].Children = Append(m.heap[holder].Children, new)
           ELSE IF n = NULL THEN m2.rootBullets = Append(m.rootBullets, new)
           ELSE /\ PositionIn(SiblingsOf(m, n), n) # 0
                /\ PositionIn(SiblingsOf(m2, n), new) = PositionIn(SiblingsOf(m, n), n) + 1
                /\ SelectSeq(SiblingsOf(m2, n), Old) = SiblingsOf(m, n)
        /\ holder # NULL => m2.rootBullets = m.rootBullets
        /\ \A x \in 1..Len(m.heap) :
              IF x = holder THEN Rest(m2.heap, x) = Rest(m.heap, x)
              ELSE m2.heap[x] = m.heap[x]

\* the insertion as the specification describes it: under the zoom root only
\* when the zoom root is the anchor
InsertedAfter(m, m2, text) ==
    Inserted(m, m2, text,
             m.zoomedBullet # NULL /\ getSelectedBullet(m) = m.zoomedBullet)

\* the insertion in a zoomed view without an anchor goes under the zoom root too
InsertedAfterOrInZoom(m, m2, text) ==
    Inserted(m, m2, text,
             m.zoomedBullet # NULL /\ getSelectedBullet(m) \in {NULL, m.zoomedBullet})

\* a text is entered in the normal view
InsertStep ==
    /\ ops' = ops + 3
    /\ status = "active"
    /\ session.appMode = AppModeNormal
    /\ session.editMode = EditModeNone

Descendants(m, n) == ReachFrom(m.heap, {n}, {}) \ {n}

\* no node strictly between n and its descendant d is collapsed
RECURSIVE OpenPath(_, _, _)
OpenPath(h, n, d) ==
    LET p == h[d].Parent
    IN  IF p = n \/ p = NULL THEN TRUE ELSE ~h[p].Collapsed /\ OpenPath(h, n, p)

\* the descendants of n that the projection lists while n is expanded
ShownDescendants(m, n) == {d \in Descendants(m, n) : OpenPath(m.heap, n, d)}

\* m2 is m after the selected node with children was collapsed or expanded, and
\* the projection lost or gained exactly count entries
ProjectionChangedBy(m, m2, count) ==
    LET n == getSelectedBullet(m)
    IN  /\ m2.heap[n].Collapsed = ~m.heap[n].Collapsed
        /\ IF m.heap[n].Collapsed
           THEN Len(m2.allBullets) = Len(m.allBullets) + count
           ELSE Len(m2.allBullets) = Len(m.allBullets) - count

\* the collapse key acts on a selected node with children
CollapseStep ==
    /\ ops' = ops + 1
    /\ status = "active"
    /\ getSelectedBullet(session) # NULL
    /\ session.heap[getSelectedBullet(session)].Children # <<>>
    /\ session' = UpdateNormal(session, " ")

\* C23: collapsing a node with N descendants removes exactly N entries from the
\* visible projection, and expanding it again restores exactly N entries
C23_CollapseHidesAllDescendants ==
    [][CollapseStep =>
         ProjectionChangedBy(session, session',
             Cardinality(Descendants(session, getSelectedBullet(session))))]_vars

\* C23, amended: N counts the descendants that are not below a collapsed
\* descendant
C23_CollapseHidesShownDescendants ==
    [][CollapseStep =>
         ProjectionChangedBy(session, session',
             Cardinality(ShownDescendants(session, getSelectedBullet(session))))]_vars

\* the selected node is collapsed above a collapsed child that has children:
\* collapsing it hid fewer entries than it has descendants
C23_Witness ==
    /\ status = "active"
    /\ LET n == getSelectedBullet(session)
       IN  /\ n # NULL
           /\ session.heap[n].Collapsed
           /\ \E i \in 1..Len(session.heap[n].Children) :
                 LET c == session.heap[n].Children[i]
                 IN  session.heap[c].Collapsed /\ session.heap[c].Children # <<>>
           /\ \A i \in 1..Len(session.allBullets) :
                 session.allBullets[i] \notin Descendants(session, n)

\* a key of the normal view acts on the selected node
NormalKeyStep(key) ==
    /\ ops' = ops + 1
    /\ status = "active"
    /\ session.appMode = AppModeNormal
    /\ session.editMode = EditModeNone
    /\ getSelectedBullet(session) # NULL
    /\ session' = UpdateNormal(session, key)

\* no node of m is completed without being a task
Coupled(m) == \A n \in 1..Len(m.heap) : m.heap[n].Completed => m.heap[n].IsTask

\* C24: disabling the task flag of a node leaves it not completed; toggling
\* completed on a node that is not a task changes nothing; and in every state
\* reached from the bootstrap Document no node is completed without being a task
C24_TaskCompletedCoupling ==
    [][LET n == getSelectedBullet(session)
       IN  /\ (NormalKeyStep("t") /\ session.heap[n].IsTask)
                 => ~session'.heap[n].IsTask /\ ~session'.heap[n].Completed
           /\ (NormalKeyStep("x") /\ ~session.heap[n].IsTask)
                 => session' = session
           /\ origFile = FileAbsent => Coupled(session) /\ Coupled(session')]_vars

\* starting from the bootstrap Document a node was made a task and completed
C24_Witness ==
    /\ origFile = FileAbsent
    /\ getSelectedBullet(session) # NULL
    /\ session.heap[getSelectedBullet(session)].IsTask
    /\ session.heap[getSelectedBullet(session)].Completed

\* the traversed scope: the zoom root followed by its subtree when zoomed, else
\* the Document, in pre-order
ScopeOrder(m) ==
    PreOrder(m.heap,
             IF m.zoomedBullet # NULL THEN <<m.zoomedBullet>> ELSE m.rootBullets,
             Len(m.heap) + 1)

\* the scope without the descendants of its collapsed nodes
ExpectedProjection(m) ==
    LET scope == ScopeOrder(m)
        inScope == {scope[i] : i \in 1..Len(scope)}
        Listed(d) == \A a \in inScope : m.heap[a].Collapsed => d \notin Descendants(m, a)
    IN  SelectSeq(scope, Listed)

\* C25: after every operation the visible list is the pre-order traversal of
\* the Document, or of the zoom root and its subtree when zoomed, without the
\* descendants of collapsed nodes
C25_ProjectionIsPreOrder ==
    ~session.panicked => session.allBullets = ExpectedProjection(session)

\* a zoomed view after an insertion, with a collapsed node below the zoom root
\* whose descendants the list leaves out
C25_Witness ==
    /\ status = "active"
    /\ ~session.panicked
    /\ session.zoomedBullet # NULL
    /\ Len(session.allBullets) < Len(ScopeOrder(session))
    /\ \E i \in 2..Len(session.allBullets) :
          /\ session.heap[session.allBullets[i]].Collapsed
          /\ session.heap[session.allBullets[i]].Children # <<>>
    /\ \E i \in 2..Len(session.allBullets) :
          session.heap[session.allBullets[i]].Content = "a"

\* the rows View has for the list
availableRows(m) ==
    m.height - ChromeRows - (IF m.editMode = EditModeNew THEN InputRows ELSE 0)

\* the selected index is inside the rendered window and the window does not
\* start past the last page
WindowClamped(m) ==
    /\ m.scrollOffset <= m.selectedIndex
    /\ m.selectedIndex < m.scrollOffset + availableRows(m)
    /\ 0 <= m.scrollOffset
    /\ m.scrollOffset <= Max({0, Len(m.allBullets) - availableRows(m)})

\* C26: after every selection change, when the window height is known, the
\* selected index lies in [scrollOffset, scrollOffset + available rows) and
\* 0 <= scrollOffset <= max(0, visible count - available rows)
C26_ScrollWindowClamped ==
    [][(/\ status = "active"
        /\ ~session'.panicked
        /\ session'.selectedIndex # session.selectedIndex
        /\ session'.height # 0)
       => WindowClamped(session')]_vars

\* every node's back-reference names the node whose Children holds it, and
\* the roots have none
ParentsRestored(data) ==
    /\ \A i \in 1..Len(data.RootBullets) : data.heap[data.RootBullets[i]].Parent = NULL
    /\ \A b \in 1..Len(data.heap) :
          \A i \in 1..Len(data.heap[b].Children) :
              data.heap[data.heap[b].Children[i]].Parent = b

\* no node is marked as being edited
NoneEditing(data) == \A b \in 1..Len(data.heap) : ~data.heap[b].IsEditing

\* C27: after a successful Load, of the local codec and of the SSH codec alike,
\* every node's parent is the node whose children list contains it, roots have
\* none, and the edit flag of every node is false whatever the record says
C27_DecodeRestoresParentsAndEditFlag ==
    (lastCall = "Load" /\ ~loadErr)
        => ParentsRestored(liveData) /\ NoneEditing(liveData)

\* m2 is m after toggleCollapse on the selected node: nothing of the Document
\* changes when the node has no children; else its collapsed flag is flipped
\* and every other field, every other node and the root list are as before
ToggledOnly(m, m2) ==
    LET n == getSelectedBullet(m)
    IN  /\ m2.rootBullets = m.rootBullets
        /\ IF m.heap[n].Children = <<>> THEN m2.heap = m.heap
           ELSE m2.heap = [m.heap EXCEPT ![n].Collapsed = ~m.heap[n].Collapsed]

\* C28: toggleCollapse on a node without children changes nothing; on a node
\* with children it flips that node's collapsed flag and leaves the structure
\* and every other node's fields unchanged
C28_ToggleFlipsOnlyParents ==
    [][NormalKeyStep(" ") => ToggledOnly(session, session')]_vars

\* a node with children was collapsed, and a node without children is selected
\* and expanded after the collapse key
C28_Witness ==
    /\ status = "active"
    /\ getSelectedBullet(session) # NULL
    /\ session.heap[getSelectedBullet(session)].Children = <<>>
    /\ ~session.heap[getSelectedBullet(session)].Collapsed
    /\ \E n \in DocNodes(session) :
          session.heap[n].Collapsed /\ session.heap[n].Children # <<>>

\* a line that is neither blank nor a comment and holds a public key
WellFormedLine(line) == ~SkippedLine(line) /\ ~ParseAuthorizedKeyLine(line).err

\* the keys of the well-formed lines, in the order of the lines
KeysOfWellFormedLines(lines) ==
    LET kept == SelectSeq(lines, WellFormedLine)
    IN  [i \in 1..Len(kept) |-> ParseAuthorizedKeyLine(kept[i]).key]

\* the key file of user u, as the server finds it when it starts
LoadedFrom(u) ==
    /\ authOps = 0
    /\ authLast.call = "none"
    /\ usersDir[u].exists
    /\ usersDir[u].authorized_keys.exists

\* C29: loading a user's key file yields exactly the keys of its well-formed
\* lines, in order; blank lines, comment lines and malformed lines are skipped
\* and do not keep the other lines from loading
C29_LoadYieldsWellFormedKeys ==
    \A u \in AuthUsers :
        LoadedFrom(u) =>
            /\ u \in DOMAIN authorizedKeys
            /\ authorizedKeys[u] = KeysOfWellFormedLines(usersDir[u].authorized_keys.lines)

\* m with the view state of m2: zoom root, breadcrumbs, selection, scroll
\* offset and the projection computed from them
WithViewOf(m, m2) ==
    [m EXCEPT !.zoomedBullet = m2.zoomedBullet,
              !.breadcrumbs = m2.breadcrumbs,
              !.selectedIndex = m2.selectedIndex,
              !.scrollOffset = m2.scrollOffset,
              !.allBullets = m2.allBullets]

\* zoomIn or zoomOut moves the zoom root
ZoomStep ==
    /\ ops' = ops + 1
    /\ status = "active"
    /\ session' = zoomIn(session) \/ session' = zoomOut(session)
    /\ session'.zoomedBullet # session.zoomedBullet

\* C30: zoomIn and zoomOut change only the zoom root, the breadcrumbs, the
\* selection and the scroll offset (and the projection derived from them); the
\* Document and the durable records are unchanged, and the record a save would
\* write is the same before and after
C30_ZoomIsViewState ==
    [][ZoomStep =>
          /\ session' = WithViewOf(session, session')
          /\ DocView(SessionData(session')) = DocView(SessionData(session))
          /\ userFile' = userFile
          /\ localFile' = localFile
          /\ SSHSave(SessionData(session')) = SSHSave(SessionData(session))
          /\ ConfigSave(SessionData(session')) = ConfigSave(SessionData(session))]_vars

\* a zoomed view below the forest roots, reached after the Document was
\* changed, while the record is the one of the last save
C30_Witness ==
    /\ status = "active"
    /\ session.zoomedBullet # NULL
    /\ session.breadcrumbs # <<>>
    /\ session.selectedIndex = 0
    /\ userFile # origFile
    /\ userFile = saveSSHData(session)

\* indent, outdent, moveUp or moveDown acts on the selected node
RelocateStep ==
    /\ ops' = ops + 1
    /\ status = "active"
    /\ getSelectedBullet(session) # NULL
    /\ \/ session' = indentBullet(session)
       \/ session' = outdentBullet(session)
       \/ session' = moveBulletUp(session)
       \/ session' = moveBulletDown(session)

\* C31: indent, outdent, moveUp and moveDown only relocate nodes: the set of
\* nodes reachable from the root forest is the same before and after, zoomed
\* or not, and the operation completes
C31_RelocationKeepsNodes ==
    [][RelocateStep =>
          /\ ~session'.panicked
          /\ DocNodes(session') = DocNodes(session)]_vars

\* C32: distinct user names have distinct directories: a connection that is
\* authenticated, auto-registered or provisioned under one user name leaves the
\* key file of every other registered user name as it was and is not
\* provisioned from that user's directory
C32_DistinctNamesDistinctDirs ==
    [][\A b \in ServerUsernames :
          (/\ authOps' = authOps + 1
           /\ authLast'.call \in {"authHandler", "teaHandler"}
           /\ authLast'.username # b
           /\ b \in DOMAIN authorizedKeys)
          => /\ usersDir'[userDir(b)] = usersDir[userDir(b)]
             /\ authLast'.call = "teaHandler" => userDir(authLast'.username) # userDir(b)]_vars

\* C33: every node of the visible projection, and the zoom root, is reachable
\* from the root forest that Save persists
C33_ProjectionInDocument ==
    ~session.panicked =>
        /\ \A i \in 1..Len(session.allBullets) : session.allBullets[i] \in DocNodes(session)
        /\ session.zoomedBullet # NULL => session.zoomedBullet \in DocNodes(session)

\* the keys held for u
KeySet(keys, u) == {MapGet(keys, u)[i] : i \in 1..Len(MapGet(keys, u))}

\* the keys held in memory are those a restarted server loads from the files
SameAfterRestart(keys, fs) ==
    \A u \in AuthUsers : KeySet(keys, u) = KeySet(NewAuthManager(fs), u)

\* C34: an add-key operation (AddUserKey, AddUserFromFile, auto-registration)
\* that starts with the keys in memory equal to the keys of the files ends with
\* them equal: authentication decides the same before and after a restart
C34_AddKeyKeepsMemoryAndFileEqual ==
    [][(/\ authOps' = authOps + 1
        /\ authLast'.call \in {"AddUserKey", "AddUserFromFile", "AuthenticateOrRegister"}
        /\ SameAfterRestart(authorizedKeys, usersDir))
       => SameAfterRestart(authorizedKeys', usersDir')]_vars

\* C35: the selection index is within the visible projection: at least 0 and
\* below the number of visible nodes when there are any, and 0 when there are
\* none
C35_SelectionInProjection ==
    ~session.panicked =>
        IF session.allBullets = <<>> THEN session.selectedIndex = 0
        ELSE 0 <= session.selectedIndex /\ session.selectedIndex < Len(session.allBullets)

\* indent, outdent, moveUp or moveDown changes the tree
RelocationDone ==
    /\ RelocateStep
    /\ ~session'.panicked
    /\ \/ session'.heap # session.heap
       \/ session'.rootBullets # session.rootBullets

\* C36: after an indent, outdent, moveUp or moveDown that changes the tree, the
\* selected node is the node the operation was applied to
C36_SelectionFollowsNode ==
    [][RelocationDone => getSelectedBullet(session') = getSelectedBullet(session)]_vars

\* the proper ancestors of node b, from the forest root down to its parent
AncestorChain(m, b) == PathTo(m.heap, m.heap[b].Parent)

\* when zoomed, the breadcrumbs are the ancestors of the zoom root
BreadcrumbsAreAncestors(m) ==
    (~m.panicked /\ m.zoomedBullet # NULL) => m.breadcrumbs = AncestorChain(m, m.zoomedBullet)

\* C37: whenever the view is zoomed the breadcrumb stack is the chain of proper
\* ancestors of the zoom root, from the forest root down to its parent; and a
\* zoomOut makes the zoom root's parent the new zoom root, or leaves the zoomed
\* view when the zoom root has no parent
C37_BreadcrumbsAreAncestors ==
    [][/\ BreadcrumbsAreAncestors(session')
       /\ (/\ ops' = ops + 1
           /\ status = "active"
           /\ session.zoomedBullet # NULL
           /\ session' = zoomOut(session))
          => session'.zoomedBullet = session.heap[session.zoomedBullet].Parent]_vars

\* ---- sessions over records whose sibling nodes carry equal IDs
\* a stored node; ID 0 stands for the empty ID
EqualIDObject(id, content, kids) == BulletObject(NewBullet(id, content), kids, FALSE)

EqualIDRecord(objects) ==
    FileJSON([rootBullets |-> objects, settings |-> [ShowHierarchyLines |-> TRUE]])

\* records with two roots of one ID, two children of one ID, two roots of one
\* ID with a child each, and two roots with the empty ID
EqualIDFiles ==
    {EqualIDRecord(<<EqualIDObject(1, "n1", <<>>), EqualIDObject(1, "n2", <<>>)>>),
     EqualIDRecord(<<EqualIDObject(1, "n1", <<EqualIDObject(2, "n2", <<>>),
                                             EqualIDObject(2, "n3", <<>>)>>)>>),
     EqualIDRecord(<<EqualIDObject(1, "n1", <<EqualIDObject(2, "n2", <<>>)>>),
                     EqualIDObject(1, "n3", <<EqualIDObject(2, "n4", <<>>)>>)>>),
     EqualIDRecord(<<EqualIDObject(0, "n1", <<>>), EqualIDObject(0, "n2", <<>>)>>)}

EqualIDInit ==
    /\ mode = "ssh"
    /\ username \in Usernames
    /\ origFile \in EqualIDFiles
    /\ userFile = origFile
    /\ localFile = FileAbsent
    /\ session = NewSSHModel(username, userFile, localFile, 1)
    /\ ops = 0
    /\ status = "active"
    /\ CodecIdle
    /\ AuthIdle

SpecEqualIDs == EqualIDInit /\ [][TreeNext]_vars

\* where node x hangs: 0 in the root list, p in the Children of p, -1 nowhere
HolderOf(m, x) ==
    IF \E i \in 1..Len(m.rootBullets) : m.rootBullets[i] = x THEN 0
    ELSE LET holders == {p \in 1..Len(m.heap) :
                            \E i \in 1..Len(m.heap[p].Children) : m.heap[p].Children[i] = x}
         IN  IF holders = {} THEN -1 ELSE CHOOSE p \in holders : TRUE

\* delete, indent, outdent or a move acts on the selected node
DetachStep ==
    /\ ops' = ops + 1
    /\ status = "active"
    /\ getSelectedBullet(session) # NULL
    /\ ~session'.panicked
    /\ \/ session' = deleteBullet(session)
       \/ session' = indentBullet(session)
       \/ session' = outdentBullet(session)
       \/ session' = moveBulletUp(session)
       \/ session' = moveBulletDown(session)

\* C38: delete, indent, outdent and move take the selected node from its place
\* and no other node: every other node hangs where it hung before, also in
\* Documents decoded from records whose siblings carry equal or empty IDs
C38_DetachesSelectedOnly ==
    [][DetachStep =>
          \A x \in 1..Len(session.heap) :
              x # getSelectedBullet(session) => HolderOf(session', x) = HolderOf(session, x)]_vars

\* the node created by an insertion is listed in the projection and selected
NewNodeShownAndSelected(m, m2) ==
    LET new == Len(m.heap) + 1
    IN  /\ ~m2.panicked
        /\ Len(m2.heap) = new
        /\ PositionIn(m2.allBullets, new) # 0
        /\ getSelectedBullet(m2) = new

\* C39: after an insertion that creates a node, the new node is in the visible
\* projection and is the selected node, in unzoomed and zoomed views alike,
\* also when the anchor is the zoom root
C39_NewNodeShownAndSelected ==
    [][InsertStep => NewNodeShownAndSelected(session, session')]_vars

\* every collapsed node of the Document has at least one child
CollapsedHaveChildren(m) ==
    \A n \in DocNodes(m) : m.heap[n].Collapsed => m.heap[n].Children # <<>>

\* C40: in every state reached from the bootstrap Document, every collapsed
\* node has at least one child; no operation removes the last child of a node
\* while leaving it collapsed
C40_CollapsedHaveChildren ==
    (origFile = FileAbsent /\ ~session.panicked) => CollapsedHaveChildren(session)

\* in a session started from the bootstrap Document the view is zoomed into a
\* collapsed node with exactly one child, and that node was a leaf of the
\* bootstrap Document: an indent gave it the child before it was collapsed
C40_Witness ==
    /\ origFile = FileAbsent
    /\ status = "active"
    /\ ~session.panicked
    /\ \E n \in DocNodes(session) :
          /\ n <= Len(BootstrapData.heap)
          /\ BootstrapData.heap[n].Children = <<>>
          /\ session.heap[n].Collapsed
          /\ Len(session.heap[n].Children) = 1
          /\ session.zoomedBullet = n

====
